---------------------------- MODULE Spec2Model ----------------------------
(***************************************************************************)
(* fastener-api: authentication and authorization core.                    *)
(*                                                                         *)
(* The model follows the Go sources: the token codec (middleware/jwt.go),  *)
(* the session service (service/company.go, authServiceImpl), the account  *)
(* service (service/menu.go, accountServiceImpl), the permission cache     *)
(* (service/permission.go), the Authorize middleware (middleware/authz.go) *)
(* and the route table (RegisterAPIRoutes).  The PostgreSQL tables are the  *)
(* variables accounts, roles and rolePermissions; the package-level error  *)
(* objects of utils/errors.go are the variable errDetails.                 *)
(*                                                                         *)
(* Time is counted in hours, the unit of the two token lifetimes.          *)
(***************************************************************************)
EXTENDS Integers, FiniteSets, Sequences, TLC

(***************************************************************************)
(* Bounds of the exploration.                                              *)
(***************************************************************************)
MaxTime == 2
MaxAccounts == 2
MaxTokens == 3

(***************************************************************************)
(* Configuration (config.LoadConfig).  The access lifetime is the default  *)
(* of one hour; the refresh lifetime is configurable and is scaled down    *)
(* from its default of 720 hours.                                          *)
(***************************************************************************)
JwtAccessExpiresHours == 1
JwtRefreshExpiresHours == 2
JwtSecret == "JWT_SECRET"
AttackerSecret == "attacker-key"

VARIABLES
    now,                    \* the wall clock, time.Now(), in hours
    accounts,               \* table accounts: rows [ID, Username, Password, RoleID]
    nextAccountID,          \* the SERIAL sequence of accounts.id
    roles,                  \* table roles: rows [ID, Name]
    rolePermissions,        \* role_permissions joined with permissions: <<role_id, name>>
    rolePermissionsCache,   \* permissionServiceImpl.rolePermissionsCache
    errDetails,             \* Details of the package-level error objects
    issued,                 \* tokens handed out to clients and still kept by them
    resp,                   \* the response to the last request, until the clock or
                            \* the permission store moves on
    nextRoleID,             \* the SERIAL sequence of roles.id
    cacheMutex,             \* permissionServiceImpl.cacheMutex, a sync.RWMutex
    calls,                  \* the goroutines inside HasPermission: their frames
    permissionMaps,         \* the map objects that loadPermissionsForRole made
    cacheRef,               \* per role, the map object that the cache refers to
    storeQueries,           \* per role, the queries sent to the permission store
    registering             \* the goroutines inside Register: their frames

\* The state of the goroutines that run inside the services at once.
goroutineVars == <<cacheMutex, calls, permissionMaps, cacheRef, storeQueries, registering>>

vars == <<now, accounts, nextAccountID, roles, rolePermissions,
          rolePermissionsCache, errDetails, issued, resp, nextRoleID, goroutineVars>>

(***************************************************************************)
(* utils/errors.go: the shared error objects.  Code and Message are fixed; *)
(* Details is mutated in place by SetDetails and lives in errDetails.      *)
(***************************************************************************)
NilDetails == "<nil>"

ErrBadRequest == [name |-> "ErrBadRequest", Code |-> 400, Message |-> "Bad Request"]

ErrUnauthorized == [name |-> "ErrUnauthorized", Code |-> 401, Message |-> "Unauthorized"]

ErrForbidden == [name |-> "ErrForbidden", Code |-> 403, Message |-> "Forbidden"]

ErrNotFound == [name |-> "ErrNotFound", Code |-> 404, Message |-> "Resource not found"]

ErrInternalServer == [name |-> "ErrInternalServer", Code |-> 500, Message |-> "Internal server error"]

ErrorObjects == {ErrBadRequest, ErrUnauthorized, ErrForbidden, ErrNotFound, ErrInternalServer}

\* e.SetDetails(details): writes the field of the shared object.
SetDetails(ed, e, details) == [ed EXCEPT ![e.name] = details]

\* c.JSON(customErr.Code, customErr): the object as serialised when the
\* response is written, with whatever Details it holds at that moment.
ErrorJSON(ed, e) == [code |-> e.Code, message |-> e.Message, details |-> ed[e.name]]

(***************************************************************************)
(* utils.HashPassword / utils.CheckPasswordHash (bcrypt).                   *)
(***************************************************************************)
HashPassword(password) == <<"bcrypt", password>>

\* Variant: the comparison accepts every password.
CheckPasswordHashAny(password, hash) == TRUE

CheckPasswordHash(password, hash) == hash = HashPassword(password)

\* The Password column as FindByID leaves it: the query does not select it.
NoPassword == <<"", "">>

(***************************************************************************)
(* middleware/jwt.go: claims, token issue and verification.                *)
(*                                                                         *)
(* A compact token is [alg, payload, mac]: the header's algorithm, the     *)
(* JSON object of the claims, and the key under which the MAC over header  *)
(* and payload verifies.  Anything else is a malformed token string.       *)
(***************************************************************************)
Issuer == "fastener-api"

\* The empty string: what the services return in place of a token on failure,
\* and the simplest malformed token a client can send.
EmptyToken == [raw |-> ""]

\* Variant: the role is marshalled under the member name "role".
AccessClaimsJSONRoleTag(c) ==
    [account_id |-> c.AccountID, username |-> c.Username, role |-> c.RoleID,
     exp |-> c.ExpiresAt, iat |-> c.IssuedAt, iss |-> c.Issuer, sub |-> c.Subject]

\* json.Marshal of *AccessClaims.
AccessClaimsJSON(c) ==
    [account_id |-> c.AccountID, username |-> c.Username, role_id |-> c.RoleID,
     exp |-> c.ExpiresAt, iat |-> c.IssuedAt, iss |-> c.Issuer, sub |-> c.Subject]

\* json.Marshal of *RefreshClaims.
RefreshClaimsJSON(c) ==
    [account_id |-> c.AccountID,
     exp |-> c.ExpiresAt, iat |-> c.IssuedAt, iss |-> c.Issuer, sub |-> c.Subject]

\* jwt.NewWithClaims(method, claims).SignedString(key)
SignedString(method, payload, key) == [alg |-> method, payload |-> payload, mac |-> key]

\* A JSON member read into a struct field: the zero value when it is absent.
Field(payload, key, zero) == IF key \in DOMAIN payload THEN payload[key] ELSE zero

\* Variant: a payload without role_id decodes to the administrator role.
UnmarshalAccessClaimsAdmin(payload) ==
    [AccountID |-> Field(payload, "account_id", 0),
     Username  |-> Field(payload, "username", ""),
     RoleID    |-> Field(payload, "role_id", 1),
     ExpiresAt |-> Field(payload, "exp", -1),
     IssuedAt  |-> Field(payload, "iat", -1),
     Issuer    |-> Field(payload, "iss", ""),
     Subject   |-> Field(payload, "sub", "")]

\* json.Unmarshal into *AccessClaims: unknown members are ignored, absent
\* members leave the zero value.
UnmarshalAccessClaims(payload) ==
    [AccountID |-> Field(payload, "account_id", 0),
     Username  |-> Field(payload, "username", ""),
     RoleID    |-> Field(payload, "role_id", 0),
     ExpiresAt |-> Field(payload, "exp", -1),
     IssuedAt  |-> Field(payload, "iat", -1),
     Issuer    |-> Field(payload, "iss", ""),
     Subject   |-> Field(payload, "sub", "")]

\* json.Unmarshal into *RefreshClaims.
UnmarshalRefreshClaims(payload) ==
    [AccountID |-> Field(payload, "account_id", 0),
     ExpiresAt |-> Field(payload, "exp", -1),
     IssuedAt  |-> Field(payload, "iat", -1),
     Issuer    |-> Field(payload, "iss", ""),
     Subject   |-> Field(payload, "sub", "")]

\* Variant: the expiry instant itself still counts as valid.
ClaimsValidInclusive(claims, t) == claims.ExpiresAt = -1 \/ t <= claims.ExpiresAt

\* The registered-claims validation of jwt.Parser: only the expiry is
\* checked (no leeway, not required): the token is valid while t < exp.
ClaimsValid(claims, t) == claims.ExpiresAt = -1 \/ t < claims.ExpiresAt

\* The key function of VerifyRefreshToken and VerifyToken: any HMAC method.
IsSigningMethodHMAC(alg) == alg \in {"HS256", "HS384", "HS512"}

\* GenerateAuthTokens(account, secret, accessExpiresHours, refreshExpiresHours).
\* t1..t4 are the four readings of time.Now(), in the order of the code.
GenerateAuthTokens(account, secret, accessExpiresHours, refreshExpiresHours, t1, t2, t3, t4) ==
    [accessToken |->
        SignedString("HS256",
            AccessClaimsJSON([AccountID |-> account.ID, Username |-> account.Username,
                              RoleID |-> account.RoleID,
                              ExpiresAt |-> t1 + accessExpiresHours, IssuedAt |-> t2,
                              Issuer |-> Issuer, Subject |-> ToString(account.ID)]),
            secret),
     refreshToken |->
        SignedString("HS256",
            RefreshClaimsJSON([AccountID |-> account.ID,
                               ExpiresAt |-> t3 + refreshExpiresHours, IssuedAt |-> t4,
                               Issuer |-> Issuer, Subject |-> ToString(account.ID)]),
            secret)]

\* The nil claims that a verifier returns beside an error.
NoClaims == [none |-> TRUE]

\* jwt.ParseWithClaims(tokenString, &RefreshClaims{}, keyFunc) as called by
\* VerifyRefreshToken: segments, claims JSON, key function, MAC, validation.
ParseRefreshClaims(tokenString, secret, t) ==
    IF ~({"alg", "payload", "mac"} \subseteq DOMAIN tokenString)
    THEN [err |-> TRUE, claims |-> UnmarshalRefreshClaims(EmptyToken)]
    ELSE LET claims == UnmarshalRefreshClaims(tokenString.payload)
         IN  [err |-> ~(/\ IsSigningMethodHMAC(tokenString.alg)
                        /\ tokenString.mac = secret
                        /\ ClaimsValid(claims, t)),
              claims |-> claims]

\* jwt.ParseWithClaims(tokenString, &AccessClaims{}, keyFunc) of VerifyToken.
ParseAccessClaims(tokenString, secret, t) ==
    IF ~({"alg", "payload", "mac"} \subseteq DOMAIN tokenString)
    THEN [err |-> TRUE, claims |-> UnmarshalAccessClaims(EmptyToken)]
    ELSE LET claims == UnmarshalAccessClaims(tokenString.payload)
         IN  [err |-> ~(/\ IsSigningMethodHMAC(tokenString.alg)
                        /\ tokenString.mac = secret
                        /\ ClaimsValid(claims, t)),
              claims |-> claims]

\* Variant: a refresh token is spent by its exchange: the token that the last
\* request exchanged is refused.
VerifyRefreshTokenOnce(ed, tokenString, secret, t) ==
    LET p == ParseRefreshClaims(tokenString, secret, t)
        spent == /\ resp.op = "RefreshToken"
                 /\ resp.status = 200
                 /\ resp.req.refresh_token = tokenString
    IN  IF p.err \/ spent
        THEN [err |-> TRUE, claims |-> p.claims,
              ed |-> SetDetails(ed, ErrUnauthorized, "Invalid refresh token")]
        ELSE [err |-> FALSE, claims |-> p.claims, ed |-> ed]

\* Variant: an expired token is reported as such.
VerifyRefreshTokenTelling(ed, tokenString, secret, t) ==
    LET p == ParseRefreshClaims(tokenString, secret, t)
        expired == "payload" \in DOMAIN tokenString /\ ~ClaimsValid(p.claims, t)
    IN  IF p.err
        THEN [err |-> TRUE, claims |-> NoClaims,
              ed |-> SetDetails(ed, ErrUnauthorized,
                                IF expired THEN "Refresh token expired"
                                ELSE "Invalid refresh token")]
        ELSE [err |-> FALSE, claims |-> p.claims, ed |-> ed]

\* VerifyRefreshToken(tokenString, secret): the claims, or ErrUnauthorized
\* with Details "Invalid refresh token".  ed is errDetails after the call.
VerifyRefreshToken(ed, tokenString, secret, t) ==
    LET p == ParseRefreshClaims(tokenString, secret, t)
    IN  IF p.err
        THEN [err |-> TRUE, claims |-> NoClaims,
              ed |-> SetDetails(ed, ErrUnauthorized, "Invalid refresh token")]
        ELSE [err |-> FALSE, claims |-> p.claims, ed |-> ed]

\* (*JwtVerifier).VerifyToken(tokenString, needsRefresh)
VerifyToken(ed, tokenString, needsRefresh, secret, t) ==
    IF needsRefresh
    THEN VerifyRefreshToken(ed, tokenString, secret, t)
    ELSE LET p == ParseAccessClaims(tokenString, secret, t)
         IN  IF p.err
             THEN [err |-> TRUE, claims |-> NoClaims,
                   ed |-> SetDetails(ed, ErrUnauthorized, "Invalid token")]
             ELSE [err |-> FALSE, claims |-> p.claims, ed |-> ed]

\* Variant: the middleware does not verify the MAC.
JwtAccessConfigUnverified(tokenString, secret, t) ==
    IF ~({"alg", "payload", "mac"} \subseteq DOMAIN tokenString)
    THEN [err |-> TRUE, claims |-> UnmarshalAccessClaims(EmptyToken)]
    ELSE LET claims == UnmarshalAccessClaims(tokenString.payload)
         IN  [err |-> ~(tokenString.alg = "HS256" /\ ClaimsValid(claims, t)),
              claims |-> claims]

\* Variant: the middleware also looks the account of the token up and
\* refuses the token of an account that is gone.
JwtAccessConfigRevoking(tokenString, secret, t) ==
    IF ~({"alg", "payload", "mac"} \subseteq DOMAIN tokenString)
    THEN [err |-> TRUE, claims |-> UnmarshalAccessClaims(EmptyToken)]
    ELSE LET claims == UnmarshalAccessClaims(tokenString.payload)
         IN  [err |-> ~(/\ tokenString.alg = "HS256"
                        /\ tokenString.mac = secret
                        /\ ClaimsValid(claims, t)
                        /\ \E a \in accounts : a.ID = claims.AccountID),
              claims |-> claims]

\* echojwt with JwtAccessConfig(secret): the bearer token parsed into
\* new(AccessClaims) with the HS256 signing key; err sends the request to
\* the ErrorHandler.
JwtAccessConfig(tokenString, secret, t) ==
    IF ~({"alg", "payload", "mac"} \subseteq DOMAIN tokenString)
    THEN [err |-> TRUE, claims |-> UnmarshalAccessClaims(EmptyToken)]
    ELSE LET claims == UnmarshalAccessClaims(tokenString.payload)
         IN  [err |-> ~(/\ tokenString.alg = "HS256"
                        /\ tokenString.mac = secret
                        /\ ClaimsValid(claims, t)),
              claims |-> claims]

(***************************************************************************)
(* Inputs of the requests.                                                 *)
(***************************************************************************)
Usernames == {"alice", "bob"}

Passwords == {"secret1", "wrong-1"}

RegisterRoleIDs == {0, 1, 2, 4}

\* A request names, as dbErr, the store call of its handler that fails, by
\* its position among the store calls of the handler; 0: none fails.

(***************************************************************************)
(* The tables as the migration leaves them: the roles admin, finance and   *)
(* user with the ids 1, 2, 3 of the SERIAL column; every permission        *)
(* granted to admin; no account.                                           *)
(***************************************************************************)
SeedRoles == {[ID |-> 1, Name |-> "admin"], [ID |-> 2, Name |-> "finance"], [ID |-> 3, Name |-> "user"]}

\* The permissions of the account routes, as seeded into table permissions.
SeedPermissions == {"account:read", "account:update", "account:delete"}

SeedRolePermissions == {<<1, p>> : p \in SeedPermissions}

RoleIDs == 0 .. 3

NilErr == [name |-> "nil"]

NoAccount == [none |-> TRUE]

NoRequest == [op |-> "none", req |-> NoAccount, status |-> 0,
              body |-> NoAccount, handler |-> "none", repeat |-> FALSE]

(***************************************************************************)
(* repository/account.go and repository/role.go.  A lookup returns the set *)
(* of rows found: empty for (nil, nil), else one models.Account.           *)
(***************************************************************************)
\* accountRepositoryImpl.FindByUsername: accounts JOIN roles, with password.
FindByUsername(username) ==
    {[ID |-> x[1].ID, Username |-> x[1].Username, Password |-> x[1].Password,
      RoleID |-> x[1].RoleID, RoleName |-> x[2].Name] :
        x \in {y \in accounts \X roles : y[1].Username = username /\ y[2].ID = y[1].RoleID}}

\* accountRepositoryImpl.FindByID: accounts JOIN roles, password not selected.
FindByID(id) ==
    {[ID |-> x[1].ID, Username |-> x[1].Username, Password |-> NoPassword,
      RoleID |-> x[1].RoleID, RoleName |-> x[2].Name] :
        x \in {y \in accounts \X roles : y[1].ID = id /\ y[2].ID = y[1].RoleID}}

\* roleRepositoryImpl.FindByID
RoleFindByID(id) == {r \in roles : r.ID = id}

\* accountRepositoryImpl.Create: INSERT ... RETURNING id.
Create(account, id) ==
    accounts \cup {[ID |-> id, Username |-> account.Username,
                    Password |-> account.Password, RoleID |-> account.RoleID]}

\* The one element of a lookup that found a row.
Row(found) == CHOOSE a \in found : TRUE

\* Variant: the handler serialises the account as the service returned it.
KeepPassword(account) == account

\* handler: account.Password = "" before the account is serialised.
ClearPassword(account) == [account EXCEPT !.Password = NoPassword]

(***************************************************************************)
(* The validator tags of models.LoginRequest and models.RegisterRequest.   *)
(* The inputs carry one violation each: an empty password, a role id 0.    *)
(***************************************************************************)
ValidateLoginRequest(req) == req.username # "" /\ req.password # ""

ValidateRegisterRequest(req) == req.username # "" /\ req.password # "" /\ req.role_id >= 1

\* HTTPErrorHandler on validator.ValidationErrors: utils.NewValidationError.
NewValidationError(details) == [code |-> 400, message |-> "Validation failed", details |-> details]

(***************************************************************************)
(* service/company.go: authServiceImpl.                                    *)
(***************************************************************************)
\* return "", "", nil, err
LoginFailed(e, ed) ==
    [err |-> e, ed |-> ed, accessToken |-> EmptyToken, refreshToken |-> EmptyToken,
     account |-> NoAccount]

\* authServiceImpl.Login(username, password)
AuthLogin(ed, username, password, dbErr, t) ==
    LET found == FindByUsername(username)
    IN  IF dbErr = 1 THEN LoginFailed(ErrInternalServer, ed)
        ELSE IF found = {}
        THEN LoginFailed(ErrUnauthorized, SetDetails(ed, ErrUnauthorized, "Invalid credentials"))
        ELSE IF ~CheckPasswordHash(password, Row(found).Password)
        THEN LoginFailed(ErrUnauthorized, SetDetails(ed, ErrUnauthorized, "Invalid credentials"))
        ELSE IF dbErr = 2 THEN LoginFailed(ErrInternalServer, ed)
        ELSE IF RoleFindByID(Row(found).RoleID) = {}
        THEN LoginFailed(ErrInternalServer,
                 SetDetails(ed, ErrInternalServer, "Account role not configured correctly"))
        ELSE LET account == [Row(found) EXCEPT
                                !.RoleName = Row(RoleFindByID(Row(found).RoleID)).Name]
                 tokens == GenerateAuthTokens(account, JwtSecret, JwtAccessExpiresHours,
                                              JwtRefreshExpiresHours, t, t, t, t)
             IN  [err |-> NilErr, ed |-> ed, accessToken |-> tokens.accessToken,
                  refreshToken |-> tokens.refreshToken, account |-> account]

\* Variant: a registration under a user name that exists replaces the
\* password and the role of the existing account.
AuthRegisterOverwrite(ed, username, password, roleID, dbErr, id) ==
    IF dbErr # 0 \/ RoleFindByID(roleID) = {}
    THEN [err |-> ErrInternalServer, ed |-> ed, account |-> NoAccount, table |-> accounts]
    ELSE LET old == {a \in accounts : a.Username = username}
             newAccount == [ID |-> IF old = {} THEN id ELSE Row(old).ID,
                            Username |-> username, Password |-> HashPassword(password),
                            RoleID |-> roleID, RoleName |-> Row(RoleFindByID(roleID)).Name]
         IN  [err |-> IF old = {} THEN NilErr ELSE ErrBadRequest,
              ed |-> IF old = {} THEN ed ELSE SetDetails(ed, ErrBadRequest, "Username already exists"),
              account |-> IF old = {} THEN newAccount ELSE NoAccount,
              table |-> Create(newAccount, newAccount.ID) \cup (accounts \ old)]

\* authServiceImpl.Register(username, password, roleID)
AuthRegister(ed, username, password, roleID, dbErr, id) ==
    IF dbErr = 1 THEN [err |-> ErrInternalServer, ed |-> ed, account |-> NoAccount, table |-> accounts]
    ELSE IF FindByUsername(username) # {}
    THEN [err |-> ErrBadRequest, ed |-> SetDetails(ed, ErrBadRequest, "Username already exists"),
          account |-> NoAccount, table |-> accounts]
    ELSE IF dbErr = 2 THEN [err |-> ErrInternalServer, ed |-> ed, account |-> NoAccount, table |-> accounts]
    ELSE IF RoleFindByID(roleID) = {}
    THEN [err |-> ErrBadRequest, ed |-> SetDetails(ed, ErrBadRequest, "Invalid Role ID"),
          account |-> NoAccount, table |-> accounts]
    ELSE LET newAccount == [ID |-> id, Username |-> username, Password |-> HashPassword(password),
                            RoleID |-> roleID, RoleName |-> Row(RoleFindByID(roleID)).Name]
         IN  IF dbErr = 3
             THEN [err |-> ErrInternalServer,
                   ed |-> SetDetails(ed, ErrInternalServer,
                            "Failed to register account: failed to create account: store error"),
                   account |-> NoAccount, table |-> accounts]
             ELSE [err |-> NilErr, ed |-> ed, account |-> newAccount,
                   table |-> Create(newAccount, id)]

\* Variant: the account is not looked up again; the token is minted for
\* the account id of the claims.
AuthRefreshTokenNoReload(ed, refreshToken, dbErr, t) ==
    LET v == VerifyRefreshToken(ed, refreshToken, JwtSecret, t)
    IN  IF v.err
        THEN [err |-> ErrUnauthorized,
              ed |-> SetDetails(v.ed, ErrUnauthorized, "Invalid or expired refresh token"),
              accessToken |-> EmptyToken]
        ELSE [err |-> NilErr, ed |-> v.ed,
              accessToken |-> GenerateAuthTokens(
                  [ID |-> v.claims.AccountID, Username |-> "", RoleID |-> 0],
                  JwtSecret, JwtAccessExpiresHours, JwtRefreshExpiresHours, t, t, t, t).accessToken]

\* Variant: the new access token is minted from the claims of the presented
\* token instead of the account row.
AuthRefreshTokenFromClaims(ed, refreshToken, dbErr, t) ==
    LET v == VerifyToken(ed, refreshToken, FALSE, JwtSecret, t)
    IN  IF v.err \/ dbErr = 1 \/ FindByID(v.claims.AccountID) = {}
        THEN [err |-> ErrUnauthorized,
              ed |-> SetDetails(v.ed, ErrUnauthorized, "Invalid or expired refresh token"),
              accessToken |-> EmptyToken]
        ELSE [err |-> NilErr, ed |-> v.ed,
              accessToken |-> GenerateAuthTokens(
                  [ID |-> v.claims.AccountID, Username |-> v.claims.Username,
                   RoleID |-> v.claims.RoleID],
                  JwtSecret, JwtAccessExpiresHours, JwtRefreshExpiresHours, t, t, t, t).accessToken]

\* authServiceImpl.RefreshToken(refreshToken)
AuthRefreshToken(ed, refreshToken, dbErr, t) ==
    LET v == VerifyRefreshToken(ed, refreshToken, JwtSecret, t)
        found == FindByID(v.claims.AccountID)
    IN  IF v.err
        THEN [err |-> ErrUnauthorized,
              ed |-> SetDetails(v.ed, ErrUnauthorized, "Invalid or expired refresh token"),
              accessToken |-> EmptyToken]
        ELSE IF dbErr = 1
        THEN [err |-> ErrInternalServer, ed |-> v.ed, accessToken |-> EmptyToken]
        ELSE IF found = {}
        THEN [err |-> ErrUnauthorized,
              ed |-> SetDetails(v.ed, ErrUnauthorized, "Invalid refresh token: Account not found"),
              accessToken |-> EmptyToken]
        ELSE [err |-> NilErr, ed |-> v.ed,
              accessToken |-> GenerateAuthTokens(Row(found), JwtSecret, JwtAccessExpiresHours,
                                                 JwtRefreshExpiresHours, t, t, t, t).accessToken]

(***************************************************************************)
(* service/permission.go: the permission cache.  An entry of the map is    *)
(* [ok, perms]: ok is the second result of the map read.                   *)
(***************************************************************************)
\* permissionRepositoryImpl.FindPermissionsByRoleID: the names granted to the role.
FindPermissionsByRoleID(roleID) == {rp[2] : rp \in {x \in rolePermissions : x[1] = roleID}}

\* Variant: a failed query leaves an empty set in the cache.
loadPermissionsForRoleCachingEmpty(cache, roleID, dbErr) ==
    [err |-> dbErr = 1,
     cache |-> [cache EXCEPT ![roleID] =
                   [ok |-> TRUE,
                    perms |-> IF dbErr = 1 THEN {} ELSE FindPermissionsByRoleID(roleID)]]]

\* loadPermissionsForRole(roleID): the cache after the call, and its error.
loadPermissionsForRole(cache, roleID, dbErr) ==
    IF dbErr = 1
    THEN [err |-> TRUE, cache |-> cache]
    ELSE [err |-> FALSE,
          cache |-> [cache EXCEPT ![roleID] =
                        [ok |-> TRUE, perms |-> FindPermissionsByRoleID(roleID)]]]

\* Variant: a wildcard entry matches every permission of the resource.
HasWildcard(rolePerms, permission) == permission \in rolePerms \/ "account:*" \in rolePerms

\* _, has := rolePerms[permission]: the permission is a key of the map.
Has(rolePerms, permission) == permission \in rolePerms

\* Variant: every call loads the permissions of the role from the store.
HasPermissionReload(ed, cache, roleID, permission, dbErr) ==
    LET l == loadPermissionsForRole(cache, roleID, dbErr)
    IN  IF l.err
        THEN [has |-> FALSE, err |-> ErrInternalServer,
              ed |-> SetDetails(ed, ErrInternalServer, "Failed to retrieve permissions"),
              cache |-> l.cache, queried |-> TRUE]
        ELSE [has |-> Has(l.cache[roleID].perms, permission), err |-> NilErr,
              ed |-> ed, cache |-> l.cache, queried |-> TRUE]

\* permissionServiceImpl.HasPermission(roleID, permission).  queried: the
\* call went to the store (loadPermissionsForRole was called).
HasPermission(ed, cache, roleID, permission, dbErr) ==
    IF cache[roleID].ok
    THEN [has |-> Has(cache[roleID].perms, permission), err |-> NilErr, ed |-> ed, cache |-> cache,
          queried |-> FALSE]
    ELSE LET l == loadPermissionsForRole(cache, roleID, dbErr)
         IN  IF l.err
             THEN [has |-> FALSE, err |-> ErrInternalServer,
                   ed |-> SetDetails(ed, ErrInternalServer, "Failed to retrieve permissions"),
                   cache |-> l.cache, queried |-> TRUE]
             ELSE IF l.cache[roleID].ok
             THEN [has |-> Has(l.cache[roleID].perms, permission), err |-> NilErr,
                   ed |-> ed, cache |-> l.cache, queried |-> TRUE]
             ELSE [has |-> FALSE, err |-> ErrInternalServer,
                   ed |-> SetDetails(ed, ErrInternalServer, "Could not verify permission"),
                   cache |-> l.cache, queried |-> TRUE]

\* permissionRepositoryImpl.AssignPermissionToRole: INSERT ... ON CONFLICT DO
\* NOTHING; the foreign key refuses a role that table roles does not hold.
AssignPermissionToRole(roleID, permission) ==
    /\ RoleFindByID(roleID) # {}
    /\ rolePermissions' = rolePermissions \cup {<<roleID, permission>>}
    /\ resp' = NoRequest
    /\ UNCHANGED <<now, accounts, nextAccountID, roles, rolePermissionsCache,
                   errDetails, issued, nextRoleID, goroutineVars>>

\* permissionRepositoryImpl.RevokePermissionFromRole: DELETE; an error when
\* no row was deleted.
RevokePermissionFromRole(roleID, permission) ==
    /\ <<roleID, permission>> \in rolePermissions
    /\ rolePermissions' = rolePermissions \ {<<roleID, permission>>}
    /\ resp' = NoRequest
    /\ UNCHANGED <<now, accounts, nextAccountID, roles, rolePermissionsCache,
                   errDetails, issued, nextRoleID, goroutineVars>>

(***************************************************************************)
(* middleware/authz.go: Authorize(permission, permissionService).          *)
(***************************************************************************)
AdminRoleID == 1

\* Variant: an error of the permission service counts as a missing
\* permission.
AuthorizeErrorDenies(ed, cache, claims, permission, dbErr) ==
    LET h == HasPermission(ed, cache, claims.RoleID, permission, dbErr)
        ed1 == SetDetails(h.ed, ErrForbidden, "Insufficient permissions to perform this action")
    IN  IF claims.RoleID = AdminRoleID \/ (h.err = NilErr /\ h.has)
        THEN [allow |-> TRUE, status |-> 0, body |-> NoAccount, ed |-> ed, cache |-> cache]
        ELSE [allow |-> FALSE, status |-> 403, body |-> ErrorJSON(ed1, ErrForbidden),
              ed |-> ed1, cache |-> h.cache]

\* Variant: no fast path for the administrator role.
AuthorizeNoBypass(ed, cache, claims, permission, dbErr) ==
    LET h == HasPermission(ed, cache, claims.RoleID, permission, dbErr)
    IN  IF h.err # NilErr
        THEN [allow |-> FALSE, status |-> 500, body |-> ErrorJSON(h.ed, ErrInternalServer),
              ed |-> h.ed, cache |-> h.cache]
        ELSE [allow |-> h.has, status |-> 403, body |-> ErrorJSON(h.ed, ErrForbidden),
              ed |-> h.ed, cache |-> h.cache]

Authorize(ed, cache, claims, permission, dbErr) ==
    IF claims = NoClaims
    THEN LET ed1 == SetDetails(ed, ErrUnauthorized, "Invalid or missing authentication credentials")
         IN  [allow |-> FALSE, status |-> 401, body |-> ErrorJSON(ed1, ErrUnauthorized),
              ed |-> ed1, cache |-> cache]
    ELSE IF claims.RoleID = AdminRoleID
    THEN [allow |-> TRUE, status |-> 0, body |-> NoAccount, ed |-> ed, cache |-> cache]
    ELSE LET h == HasPermission(ed, cache, claims.RoleID, permission, dbErr)
         IN  IF h.err # NilErr
             THEN [allow |-> FALSE, status |-> 500, body |-> ErrorJSON(h.ed, ErrInternalServer),
                   ed |-> h.ed, cache |-> h.cache]
             ELSE IF ~h.has
             THEN LET ed1 == SetDetails(h.ed, ErrForbidden,
                                        "Insufficient permissions to perform this action")
                  IN  [allow |-> FALSE, status |-> 403, body |-> ErrorJSON(ed1, ErrForbidden),
                       ed |-> ed1, cache |-> h.cache]
             ELSE [allow |-> TRUE, status |-> 0, body |-> NoAccount, ed |-> h.ed, cache |-> h.cache]

(***************************************************************************)
(* service/menu.go: accountServiceImpl, with handler/account.go on top.    *)
(* Each gives the status and body of the response, the error details and   *)
(* table accounts after the call.                                          *)
(***************************************************************************)
\* c.JSON(customErr.Code, customErr)
Failed(e, ed) == [status |-> e.Code, body |-> ErrorJSON(ed, e), ed |-> ed, table |-> accounts]

\* accountRepositoryImpl.Delete
Delete(id) == {a \in accounts : a.ID # id}

\* accountRepositoryImpl.Update: username and role_id of the row.
Update(account) ==
    {IF a.ID = account.ID
     THEN [a EXCEPT !.Username = account.Username, !.RoleID = account.RoleID]
     ELSE a : a \in accounts}

\* AccountHandler.GetAccountById over accountServiceImpl.GetAccountByID
GetAccountByID(ed, id, dbErr) ==
    IF dbErr = 1 THEN Failed(ErrInternalServer, ed)
    ELSE IF FindByID(id) = {} THEN Failed(ErrNotFound, ed)
    ELSE [status |-> 200, body |-> ClearPassword(Row(FindByID(id))), ed |-> ed, table |-> accounts]

\* AccountHandler.DeleteAccount over accountServiceImpl.DeleteAccount
AccountDelete(ed, id, dbErr) ==
    IF dbErr = 1 THEN Failed(ErrInternalServer, ed)
    ELSE IF FindByID(id) = {} THEN Failed(ErrNotFound, ed)
    ELSE IF dbErr = 2
    THEN Failed(ErrInternalServer,
                SetDetails(ed, ErrInternalServer,
                           "Failed to delete account: failed to delete account: store error"))
    ELSE [status |-> 204, body |-> NoAccount, ed |-> ed, table |-> Delete(id)]

\* The validator tags of models.Account, which UpdateAccount binds.
ValidateAccount(account) == account.Username # "" /\ account.Password # ""

\* AccountHandler.UpdateAccount over accountServiceImpl.UpdateAccount
AccountUpdate(ed, account, dbErr) ==
    IF ~ValidateAccount(account)
    THEN [status |-> 400, body |-> NewValidationError("Password:required"), ed |-> ed,
          table |-> accounts]
    ELSE IF dbErr = 1 THEN Failed(ErrInternalServer, ed)
    ELSE IF FindByID(account.ID) = {} THEN Failed(ErrNotFound, ed)
    ELSE IF dbErr = 2 /\ Row(FindByID(account.ID)).Username # account.Username
    THEN Failed(ErrInternalServer, ed)
    ELSE IF /\ Row(FindByID(account.ID)).Username # account.Username
            /\ \E o \in FindByUsername(account.Username) : o.ID # account.ID
    THEN Failed(ErrBadRequest,
                SetDetails(ed, ErrBadRequest, "Username already taken by another account"))
    ELSE IF dbErr = 3 THEN Failed(ErrInternalServer, ed)
    ELSE IF RoleFindByID(account.RoleID) = {}
    THEN Failed(ErrBadRequest, SetDetails(ed, ErrBadRequest, "Invalid Role ID"))
    ELSE IF dbErr = 4
    THEN Failed(ErrInternalServer,
                SetDetails(ed, ErrInternalServer,
                           "Failed to update account: failed to update account: store error"))
    ELSE [status |-> 200, body |-> ClearPassword(account), ed |-> ed, table |-> Update(account)]

(***************************************************************************)
(* The response of a request, and the tokens a client keeps.               *)
(***************************************************************************)
\* repeat: the request before this one was the same request and succeeded.
Response(op, req, status, body, handler) ==
    [op |-> op, req |-> req, status |-> status, body |-> body,
     handler |-> handler,
     repeat |-> (resp.op = op /\ resp.req = req /\ resp.status \in 200 .. 299)]

\* A client keeps the tokens of a response while it holds fewer than MaxTokens.
Keep(tokens) == IF Cardinality(issued \cup tokens) <= MaxTokens THEN issued \cup tokens ELSE issued

(***************************************************************************)
(* handler/auth.go: the public routes /login, /register, /refresh-token.   *)
(***************************************************************************)
Login(username, password, dbErr) ==
    LET req == [username |-> username, password |-> password, dbErr |-> dbErr]
        r == AuthLogin(errDetails, username, password, dbErr, now)
    IN  /\ IF ~ValidateLoginRequest(req)
           THEN /\ resp' = Response("Login", req, 400, NewValidationError("Password:required"), "none")
                /\ UNCHANGED <<errDetails, issued>>
           ELSE IF r.err # NilErr
           THEN /\ resp' = Response("Login", req, r.err.Code, ErrorJSON(r.ed, r.err), "Login")
                /\ errDetails' = r.ed
                /\ UNCHANGED issued
           ELSE /\ resp' = Response("Login", req, 200,
                                    [access_token |-> r.accessToken,
                                     refresh_token |-> r.refreshToken,
                                     account |-> ClearPassword(r.account)], "Login")
                /\ errDetails' = r.ed
                /\ issued' = Keep({r.accessToken, r.refreshToken})
        /\ UNCHANGED <<now, accounts, nextAccountID, roles, rolePermissions, rolePermissionsCache,
                       nextRoleID, goroutineVars>>

Register(username, password, roleID, dbErr) ==
    LET req == [username |-> username, password |-> password, role_id |-> roleID,
                dbErr |-> dbErr]
        r == AuthRegister(errDetails, username, password, roleID, dbErr, nextAccountID)
    IN  /\ nextAccountID <= MaxAccounts
        /\ IF ~ValidateRegisterRequest(req)
           THEN /\ resp' = Response("Register", req, 400, NewValidationError("RoleID:required"), "none")
                /\ UNCHANGED <<errDetails, accounts, nextAccountID>>
           ELSE IF r.err # NilErr
           THEN /\ resp' = Response("Register", req, r.err.Code, ErrorJSON(r.ed, r.err), "Register")
                /\ errDetails' = r.ed
                /\ UNCHANGED <<accounts, nextAccountID>>
           ELSE /\ resp' = Response("Register", req, 201, ClearPassword(r.account), "Register")
                /\ errDetails' = r.ed
                /\ accounts' = r.table
                /\ nextAccountID' = nextAccountID + 1
        /\ UNCHANGED <<now, roles, rolePermissions, rolePermissionsCache, issued,
                       nextRoleID, goroutineVars>>

RefreshToken(refreshToken, dbErr) ==
    LET req == [refresh_token |-> refreshToken, dbErr |-> dbErr]
        r == AuthRefreshToken(errDetails, refreshToken, dbErr, now)
    IN  /\ IF r.err # NilErr
           THEN /\ resp' = Response("RefreshToken", req, r.err.Code, ErrorJSON(r.ed, r.err), "RefreshToken")
                /\ UNCHANGED issued
           ELSE /\ resp' = Response("RefreshToken", req, 200, [access_token |-> r.accessToken], "RefreshToken")
                /\ issued' = Keep({r.accessToken})
        /\ errDetails' = r.ed
        /\ UNCHANGED <<now, accounts, nextAccountID, roles, rolePermissions, rolePermissionsCache,
                       nextRoleID, goroutineVars>>

(***************************************************************************)
(* RegisterAPIRoutes: a protected route.  The request passes the JWT       *)
(* middleware, the middleware that puts the claims of the token into the   *)
(* context, and Authorize(permission); then the handler h runs.            *)
(***************************************************************************)
Protected(op, tokenString, args, permission, permErr, dbErr, h) ==
    LET req == [token |-> tokenString, args |-> args, permErr |-> permErr, dbErr |-> dbErr]
        j == JwtAccessConfig(tokenString, JwtSecret, now)
        ed1 == SetDetails(errDetails, ErrUnauthorized, "Invalid or expired access token")
        a == Authorize(errDetails, rolePermissionsCache, j.claims, permission, permErr)
    IN  /\ IF j.err
           THEN /\ resp' = Response(op, req, 401, ErrorJSON(ed1, ErrUnauthorized), "none")
                /\ errDetails' = ed1
                /\ UNCHANGED <<accounts, rolePermissionsCache>>
           ELSE IF ~a.allow
           THEN /\ resp' = Response(op, req, a.status, a.body, "none")
                /\ errDetails' = a.ed
                /\ rolePermissionsCache' = a.cache
                /\ UNCHANGED accounts
           ELSE /\ resp' = Response(op, req, h.status, h.body, op)
                /\ errDetails' = h.ed
                /\ rolePermissionsCache' = a.cache
                /\ accounts' = h.table
        /\ UNCHANGED <<now, nextAccountID, roles, rolePermissions, issued,
                       nextRoleID, goroutineVars>>

\* GET /accounts/:id
GetAccountById(tokenString, id, permErr, dbErr) ==
    Protected("GetAccountById", tokenString, [id |-> id], "account:read", permErr, dbErr,
              GetAccountByID(errDetails, id, dbErr))

\* PUT /accounts/:id
UpdateAccount(tokenString, id, username, password, roleID, permErr, dbErr) ==
    Protected("UpdateAccount", tokenString,
              [id |-> id, username |-> username, password |-> password, role_id |-> roleID],
              "account:update", permErr, dbErr,
              AccountUpdate(errDetails,
                            [ID |-> id, Username |-> username, Password |-> password,
                             RoleID |-> roleID, RoleName |-> ""], dbErr))

\* DELETE /accounts/:id
DeleteAccount(tokenString, id, permErr, dbErr) ==
    Protected("DeleteAccount", tokenString, [id |-> id], "account:delete", permErr, dbErr,
              AccountDelete(errDetails, id, dbErr))

\* A caller of the verifier: jwtVerifier.VerifyToken(tokenString, needsRefresh).
CallVerifyToken(tokenString, needsRefresh) ==
    LET v == VerifyToken(errDetails, tokenString, needsRefresh, JwtSecret, now)
        req == [token |-> tokenString, needsRefresh |-> needsRefresh]
    IN  /\ resp' = IF v.err
                   THEN Response("VerifyToken", req, 401, ErrorJSON(v.ed, ErrUnauthorized), "none")
                   ELSE Response("VerifyToken", req, 200, v.claims, "none")
        /\ errDetails' = v.ed
        /\ UNCHANGED <<now, accounts, nextAccountID, roles, rolePermissions,
                       rolePermissionsCache, issued, nextRoleID, goroutineVars>>

\* The clock advances.
Tick ==
    /\ now < MaxTime
    /\ now' = now + 1
    /\ resp' = NoRequest
    /\ UNCHANGED <<accounts, nextAccountID, roles, rolePermissions, rolePermissionsCache,
                   errDetails, issued, nextRoleID, goroutineVars>>

(***************************************************************************)
(* The goroutines of concurrent requests.  A frame holds the position of   *)
(* a goroutine in the code (pc, named by the statement it is about to run  *)
(* and the line of the statement) and its local variables.                 *)
(***************************************************************************)
MaxGoroutines == 2

Goroutines == 1 .. MaxGoroutines

\* A goroutine outside HasPermission.  ret and has are the results of its
\* last call.
NoCall ==
    [pc |-> "idle", roleID |-> 0, permission |-> "", rolePerms |-> 0, ok |-> FALSE,
     err |-> FALSE, permissions |-> {}, rest |-> {}, permissionMap |-> 0, ret |-> "none",
     has |-> FALSE, n |-> 0]

\* A goroutine outside Register.
NoRegister ==
    [pc |-> "idle", via |-> "", username |-> "", password |-> "", roleID |-> 0,
     status |-> 0, details |-> NilDetails]

\* NewPermissionService: an unlocked mutex and an empty map; no goroutine
\* is inside a service.
NoGoroutines ==
    /\ cacheMutex = [w |-> 0, readers |-> {}]
    /\ calls = [g \in Goroutines |-> NoCall]
    /\ permissionMaps = <<>>
    /\ cacheRef = [r \in RoleIDs |-> 0]
    /\ storeQueries = [r \in RoleIDs |-> 0]
    /\ registering = [g \in Goroutines |-> NoRegister]

(***************************************************************************)
(* The service after construction, and its life: accounts are registered,  *)
(* log in, refresh, and are updated and deleted through the protected      *)
(* routes, while the clock advances.                                       *)
(***************************************************************************)
Init ==
    /\ now = 0
    /\ accounts = {}
    /\ nextAccountID = 1
    /\ roles = SeedRoles
    /\ rolePermissions = SeedRolePermissions
    /\ rolePermissionsCache = [r \in RoleIDs |-> [ok |-> FALSE, perms |-> {}]]
    /\ errDetails = [e \in {o.name : o \in ErrorObjects} |-> NilDetails]
    /\ issued = {}
    /\ resp = NoRequest
    /\ nextRoleID = Cardinality(SeedRoles) + 1
    /\ NoGoroutines

Next ==
    \/ Tick
    \/ \E r \in {1, 2} : Register("alice", "secret1", r, 0)
    \/ \E p \in Passwords : Login("alice", p, 0)
    \/ \E tok \in issued : RefreshToken(tok, 0)
    \/ \E tok \in issued, id \in 1 .. MaxAccounts, to \in {<<"alice", 1>>, <<"bob", 2>>} :
          UpdateAccount(tok, id, to[1], "secret1", to[2], 0, 0)
    \/ \E tok \in issued, id \in 1 .. MaxAccounts : DeleteAccount(tok, id, 0, 0)

Spec == Init /\ [][Next]_vars

(***************************************************************************)
(* The token codec under every token a client can present: the tokens it   *)
(* was given, the empty string, and forgeries made from a given token,     *)
(* signed by a key of the client's own or with the header's algorithm      *)
(* replaced by a non-HMAC one.                                             *)
(***************************************************************************)
Forged(tok) == {[tok EXCEPT !.mac = AttackerSecret], [tok EXCEPT !.alg = "RS256"]}

\* Tokens made without the secret: administrator claims for account 1, with
\* an expiry beyond every time of the model and with no expiry at all.
Crafted ==
    {SignedString("HS256", payload, AttackerSecret) :
        payload \in {[account_id |-> 1, username |-> "alice", role_id |-> AdminRoleID,
                      exp |-> MaxTime + 1, iat |-> 0, iss |-> Issuer, sub |-> "1"],
                     [account_id |-> 1, role_id |-> AdminRoleID]}}

Presentable == issued \cup {EmptyToken} \cup Crafted \cup UNION {Forged(tok) : tok \in issued}

NextCodec ==
    \/ Tick
    \/ Register("alice", "secret1", AdminRoleID, 0)
    \/ Login("alice", "secret1", 0)
    \/ \E tok \in Presentable : RefreshToken(tok, 0)
    \/ \E tok \in Presentable, needsRefresh \in BOOLEAN : CallVerifyToken(tok, needsRefresh)
    \/ \E tok \in Presentable : GetAccountById(tok, 1, 0, 0)

SpecCodec == Init /\ [][NextCodec]_vars

(***************************************************************************)
(* Authorization while permissions are granted and revoked in the store,   *)
(* and while the store may fail.                                           *)
(***************************************************************************)
\* Names granted in the store: the permission of the route, the same in
\* another case, and a wildcard.
GrantNames == {"account:read", "ACCOUNT:READ", "account:*"}

NextAuthz ==
    \/ \E r \in {AdminRoleID, 2} : Register("alice", "secret1", r, 0)
    \/ Login("alice", "secret1", 0)
    \/ \E r \in {0, 2}, p \in GrantNames : AssignPermissionToRole(r, p)
    \/ \E p \in GrantNames : RevokePermissionFromRole(2, p)
    \/ RevokePermissionFromRole(AdminRoleID, "account:read")
    \/ \E tok \in issued, permErr \in 0 .. 1 : GetAccountById(tok, 1, permErr, 0)

SpecAuthz == Init /\ [][NextAuthz]_vars

(***************************************************************************)
(* Registration and login, with every input and with a failing store.      *)
(***************************************************************************)
NextLogin ==
    \/ \E u \in Usernames, p \in Passwords, r \in RegisterRoleIDs, e \in 0 .. 3 :
          Register(u, p, r, e)
    \/ \E u \in Usernames, p \in Passwords \cup {""}, e \in 0 .. 2 : Login(u, p, e)

SpecLogin == Init /\ [][NextLogin]_vars

(***************************************************************************)
(* Properties.                                                             *)
(***************************************************************************)
\* The two kinds of token GenerateAuthTokens issues, told apart by the
\* members of the payload.
IsAccessToken(tok) == "payload" \in DOMAIN tok /\ "role_id" \in DOMAIN tok.payload

IsRefreshToken(tok) == "payload" \in DOMAIN tok /\ "role_id" \notin DOMAIN tok.payload

\* The token of the request that resp answers.
ReqToken ==
    IF "refresh_token" \in DOMAIN resp.req THEN resp.req.refresh_token
    ELSE IF "token" \in DOMAIN resp.req THEN resp.req.token
    ELSE EmptyToken

ProtectedOps == {"GetAccountById", "UpdateAccount", "DeleteAccount"}

\* The body of an Unauthorized response, whatever its details.
IsUnauthorized(body) ==
    /\ DOMAIN body = {"code", "message", "details"}
    /\ body.code = 401
    /\ body.message = "Unauthorized"

\* C1: a token presented at or after its expiresAt is rejected with
\* Unauthorized by the JWT access middleware, by VerifyToken and by
\* VerifyRefreshToken, also when it carries the MAC of the right secret; the
\* protected handler does not run and RefreshToken returns no access token.
C1_ExpiredRejected ==
    /\ \A tok \in Presentable :
          (/\ "payload" \in DOMAIN tok
           /\ "exp" \in DOMAIN tok.payload
           /\ now >= tok.payload.exp) =>
              /\ JwtAccessConfig(tok, JwtSecret, now).err
              /\ VerifyToken(errDetails, tok, FALSE, JwtSecret, now).err
              /\ VerifyToken(errDetails, tok, TRUE, JwtSecret, now).err
              /\ VerifyRefreshToken(errDetails, tok, JwtSecret, now).err
              /\ AuthRefreshToken(errDetails, tok, 0, now).err = ErrUnauthorized
              /\ AuthRefreshToken(errDetails, tok, 0, now).accessToken = EmptyToken
    /\ (/\ resp.op \in ProtectedOps \cup {"RefreshToken", "VerifyToken"}
        /\ "payload" \in DOMAIN ReqToken
        /\ "exp" \in DOMAIN ReqToken.payload
        /\ now >= ReqToken.payload.exp)
       => /\ resp.status = 401
          /\ IsUnauthorized(resp.body)
          /\ resp.handler \notin ProtectedOps

\* An access token with the right MAC, presented to a protected route at the
\* very instant of its expiry, was refused.
C1_Witness ==
    /\ resp.op = "GetAccountById"
    /\ ReqToken \in issued
    /\ IsAccessToken(ReqToken)
    /\ ReqToken.mac = JwtSecret
    /\ now = ReqToken.payload.exp
    /\ resp.status = 401
    /\ resp.handler = "none"

\* C2: an unexpired refresh token issued by GenerateAuthTokens is rejected by
\* the JWT access middleware and by VerifyToken(needsRefresh=false), and an
\* unexpired access token is rejected by VerifyRefreshToken and RefreshToken.
C2_KindsRejected ==
    /\ (/\ resp.op \in ProtectedOps
        /\ ReqToken \in issued
        /\ IsRefreshToken(ReqToken))
       => /\ resp.status = 401
          /\ JwtAccessConfig(ReqToken, JwtSecret, now).err
    /\ (/\ resp.op = "VerifyToken"
        /\ ReqToken \in issued
        /\ IF resp.req.needsRefresh THEN IsAccessToken(ReqToken) ELSE IsRefreshToken(ReqToken))
       => resp.status = 401
    /\ (/\ resp.op = "RefreshToken"
        /\ ReqToken \in issued
        /\ IsAccessToken(ReqToken))
       => /\ resp.status = 401
          /\ "access_token" \notin DOMAIN resp.body

\* RefreshToken exchanged an access token for a new access token.
C2_Witness ==
    /\ resp.op = "RefreshToken"
    /\ ReqToken \in issued
    /\ IsAccessToken(ReqToken)
    /\ resp.status = 200
    /\ IsAccessToken(resp.body.access_token)

\* Every permission string in play: the ones of the routes, the ones granted
\* in the store, and one that neither knows.
PermissionStrings == SeedPermissions \cup GrantNames \cup {"report:export"}

\* The body of a Forbidden response, whatever its details.
IsForbidden(body) ==
    /\ DOMAIN body = {"code", "message", "details"}
    /\ body.code = 403
    /\ body.message = "Forbidden"

\* C3: a refresh token with the right MAC, presented unexpired as the bearer
\* token of a protected route, never reaches the handler: for the claims the
\* JWT access middleware decodes from it, Authorize never allows, whatever
\* the permission of the route and the state of store and cache.
C3_RefreshNeverAuthorizes ==
    /\ \A tok \in issued, permission \in PermissionStrings, permErr \in 0 .. 1 :
          IsRefreshToken(tok) =>
              \/ JwtAccessConfig(tok, JwtSecret, now).err
              \/ ~Authorize(errDetails, rolePermissionsCache,
                            JwtAccessConfig(tok, JwtSecret, now).claims,
                            permission, permErr).allow
    /\ (resp.op \in ProtectedOps /\ IsRefreshToken(ReqToken))
       => /\ resp.handler = "none"
          /\ resp.status \in {401, 403, 500}

\* A refresh token passed the JWT access middleware and was refused by
\* Authorize, while the store held grants for a role.
C3_Witness ==
    /\ resp.op = "GetAccountById"
    /\ ReqToken \in issued
    /\ IsRefreshToken(ReqToken)
    /\ ~JwtAccessConfig(ReqToken, JwtSecret, now).err
    /\ resp.status = 403
    /\ resp.handler = "none"
    /\ FindPermissionsByRoleID(2) # {}

\* The set that decides for role r: the cached one, or, before the first
\* load, the one the store holds.
Deciding(r) ==
    IF rolePermissionsCache[r].ok THEN rolePermissionsCache[r].perms
    ELSE FindPermissionsByRoleID(r)

C5_AdminAlwaysAllowed ==
    /\ \A permission \in PermissionStrings, permErr \in 0 .. 1 :
          Authorize(errDetails, rolePermissionsCache, [RoleID |-> AdminRoleID],
                    permission, permErr).allow
    /\ (/\ resp.op \in ProtectedOps
        /\ ~JwtAccessConfig(ReqToken, JwtSecret, now).err
        /\ JwtAccessConfig(ReqToken, JwtSecret, now).claims.RoleID = AdminRoleID)
       => resp.handler = resp.op

\* An administrator reached the handler of a route whose permission the store
\* does not grant to the administrator role, while the store was failing.
C5_Witness ==
    /\ resp.op = "GetAccountById"
    /\ resp.handler = "GetAccountById"
    /\ IsAccessToken(ReqToken)
    /\ ReqToken.payload.role_id = AdminRoleID
    /\ resp.req.permErr = 1
    /\ <<AdminRoleID, "account:read">> \notin rolePermissions

\* The account with this id was created and is no longer in table accounts.
Deleted(id) == id \in 1 .. nextAccountID - 1 /\ \A a \in accounts : a.ID # id

\* C6: once an account is deleted, RefreshToken with a refresh token issued
\* for it, still unexpired and with the right MAC, returns Unauthorized and no
\* access token, whatever happened since the deletion: no request brings the
\* account id back.  (Read with a store that answers the lookup; when the
\* lookup itself fails no token is minted either.)
C6_DeletedAccountRefused ==
    /\ \A tok \in issued, dbErr \in 0 .. 1 :
          (IsRefreshToken(tok) /\ Deleted(tok.payload.account_id)) =>
              LET r == AuthRefreshToken(errDetails, tok, dbErr, now)
              IN  /\ r.err # NilErr
                  /\ r.accessToken = EmptyToken
                  /\ dbErr = 0 => r.err = ErrUnauthorized
    /\ (/\ resp.op = "RefreshToken"
        /\ IsRefreshToken(ReqToken)
        /\ Deleted(ReqToken.payload.account_id))
       => /\ resp.status = 401
          /\ IsUnauthorized(resp.body)
    /\ \A a \in accounts : a.ID \in 1 .. nextAccountID - 1

\* The unexpired refresh token of a deleted account was refused, after
\* another account had been registered.
C6_Witness ==
    /\ resp.op = "RefreshToken"
    /\ ReqToken \in issued
    /\ IsRefreshToken(ReqToken)
    /\ ReqToken.mac = JwtSecret
    /\ now < ReqToken.payload.exp
    /\ Deleted(ReqToken.payload.account_id)
    /\ resp.status = 401
    /\ resp.body.details = "Invalid refresh token: Account not found"
    /\ accounts # {}

\* C7: the access token of a successful RefreshToken carries the RoleID and
\* Username that the account row holds at the refresh.
C7_RefreshReadsStore ==
    /\ \A tok \in issued :
          LET r == AuthRefreshToken(errDetails, tok, 0, now)
          IN  r.err = NilErr =>
                  \E a \in accounts :
                      /\ a.ID = tok.payload.account_id
                      /\ r.accessToken.payload.account_id = a.ID
                      /\ r.accessToken.payload.role_id = a.RoleID
                      /\ r.accessToken.payload.username = a.Username
    /\ (resp.op = "RefreshToken" /\ resp.status = 200) =>
          \E a \in accounts :
              /\ a.ID = ReqToken.payload.account_id
              /\ resp.body.access_token.payload.account_id = a.ID
              /\ resp.body.access_token.payload.role_id = a.RoleID
              /\ resp.body.access_token.payload.username = a.Username

\* A refresh returned an access token whose role and user name both differ
\* from those of the access token issued together with the refresh token.
C7_Witness ==
    /\ resp.op = "RefreshToken"
    /\ resp.status = 200
    /\ IsRefreshToken(ReqToken)
    /\ \E old \in issued :
          /\ IsAccessToken(old)
          /\ old.payload.account_id = ReqToken.payload.account_id
          /\ old.payload.iat = ReqToken.payload.iat
          /\ old.payload.role_id # resp.body.access_token.payload.role_id
          /\ old.payload.username # resp.body.access_token.payload.username

C9_RefreshNotConsumed ==
    /\ \A tok \in issued :
          (/\ IsRefreshToken(tok)
           /\ now < tok.payload.exp
           /\ \E a \in accounts : a.ID = tok.payload.account_id)
          => /\ AuthRefreshToken(errDetails, tok, 0, now).err = NilErr
             /\ IsAccessToken(AuthRefreshToken(errDetails, tok, 0, now).accessToken)
    /\ (resp.op = "RefreshToken" /\ resp.status = 200) =>
          /\ DOMAIN resp.body = {"access_token"}
          /\ IsAccessToken(resp.body.access_token)
          /\ AuthRefreshToken(errDetails, ReqToken, 0, now).err = NilErr

\* The same refresh token was exchanged twice in a row, both times with
\* success.
C9_Witness ==
    /\ resp.op = "RefreshToken"
    /\ resp.status = 200
    /\ resp.repeat
    /\ IsRefreshToken(ReqToken)

\* C10: Login with a wrong password for an existing user name and Login with
\* a user name that does not exist have the same outcome: Unauthorized with
\* the same code, message and details, no tokens, no account.
C10_LoginFailuresAlike ==
    /\ \A u1 \in Usernames, u2 \in Usernames, p1 \in Passwords, p2 \in Passwords :
          (/\ \E a \in accounts : a.Username = u1 /\ a.Password # HashPassword(p1)
           /\ \A a \in accounts : a.Username # u2)
          => LET wrong == AuthLogin(errDetails, u1, p1, 0, now)
                 absent == AuthLogin(errDetails, u2, p2, 0, now)
             IN  /\ wrong = absent
                 /\ wrong.err = ErrUnauthorized
                 /\ ErrorJSON(wrong.ed, wrong.err) = ErrorJSON(absent.ed, absent.err)
                 /\ wrong.accessToken = EmptyToken
                 /\ wrong.refreshToken = EmptyToken
                 /\ wrong.account = NoAccount
    /\ (/\ resp.op = "Login"
        /\ resp.req.dbErr = 0
        /\ resp.req.password # ""
        /\ \A a \in accounts : ~(/\ a.Username = resp.req.username
                                 /\ a.Password = HashPassword(resp.req.password)))
       => /\ resp.status = 401
          /\ resp.body = [code |-> 401, message |-> "Unauthorized",
                          details |-> "Invalid credentials"]

\* A login with a wrong password for a registered user name was refused,
\* while another user name was not registered and the shared Unauthorized
\* object had carried other details before.
C10_Witness ==
    /\ resp.op = "Login"
    /\ resp.status = 401
    /\ \E a \in accounts : a.Username = resp.req.username
    /\ \E u \in Usernames : \A a \in accounts : a.Username # u
    /\ errDetails["ErrBadRequest"] # NilDetails

(***************************************************************************)
(* Login in front of an inconsistent account store.  The store holds one   *)
(* account, alice with password secret1, whose role_id is 2 (a role of the *)
(* seed) or OrphanRoleID (no row of roles has it).  The second is the      *)
(* state the branch "role == nil" of authServiceImpl.Login is written for; *)
(* no request of the service produces it, and the foreign key of           *)
(* accounts.role_id excludes it in a database that enforces the key.       *)
(***************************************************************************)
OrphanRoleID == 4

InitOrphan ==
    /\ now = 0
    /\ \E r \in {2, OrphanRoleID} :
          accounts = {[ID |-> 1, Username |-> "alice",
                       Password |-> HashPassword("secret1"), RoleID |-> r]}
    /\ nextAccountID = 2
    /\ roles = SeedRoles
    /\ rolePermissions = SeedRolePermissions
    /\ rolePermissionsCache = [r \in RoleIDs |-> [ok |-> FALSE, perms |-> {}]]
    /\ errDetails = [e \in {o.name : o \in ErrorObjects} |-> NilDetails]
    /\ issued = {}
    /\ resp = NoRequest
    /\ nextRoleID = Cardinality(SeedRoles) + 1
    /\ NoGoroutines

NextOrphan ==
    \/ Tick
    \/ \E u \in Usernames, p \in Passwords, e \in 0 .. 2 : Login(u, p, e)
    \/ \E u \in Usernames, r \in {2, OrphanRoleID} : Register(u, "secret1", r, 0)
    \/ \E tok \in issued : RefreshToken(tok, 0)

SpecOrphan == InitOrphan /\ [][NextOrphan]_vars

\* The account of the login request, when the password of the request is
\* its password and its role has no row in roles.
OrphanLogin ==
    /\ resp.op = "Login"
    /\ resp.req.dbErr = 0
    /\ \E a \in accounts :
          /\ a.Username = resp.req.username
          /\ a.Password = HashPassword(resp.req.password)
          /\ RoleFindByID(a.RoleID) = {}

BadRequestJSON(details) == [code |-> 400, message |-> "Bad Request", details |-> details]

\* C12: Register with a user name that exists in the account store returns
\* BadRequest and leaves the account store as it is: no row is added, and no
\* row changes (the password and the role of the existing account stay).
C12_DuplicateRegisterRefused ==
    /\ [](\A u \in Usernames, p \in Passwords, r \in RegisterRoleIDs \ {0}, e \in {0, 2, 3} :
            (\E a \in accounts : a.Username = u) =>
                LET reg == AuthRegister(errDetails, u, p, r, e, nextAccountID)
                IN  /\ reg.err = ErrBadRequest
                    /\ ErrorJSON(reg.ed, reg.err) = BadRequestJSON("Username already exists")
                    /\ reg.account = NoAccount
                    /\ reg.table = accounts)
    /\ [][(/\ resp'.op = "Register"
           /\ resp'.req.dbErr # 1
           /\ ValidateRegisterRequest(resp'.req)
           /\ \E a \in accounts : a.Username = resp'.req.username)
          => /\ resp'.status = 400
             /\ resp'.body = BadRequestJSON("Username already exists")
             /\ accounts' = accounts
             /\ nextAccountID' = nextAccountID]_vars

\* A registration under an existing user name, with another password and
\* another role than the account has, was refused and the account kept both.
C12_Witness ==
    /\ resp.op = "Register"
    /\ resp.status = 400
    /\ resp.body = BadRequestJSON("Username already exists")
    /\ Cardinality(accounts) = 1
    /\ \E a \in accounts :
          /\ a.Username = resp.req.username
          /\ a.Password # HashPassword(resp.req.password)
          /\ a.RoleID # resp.req.role_id
          /\ RoleFindByID(resp.req.role_id) # {}

\* C13: the account that a successful Register returns to its caller has an
\* empty password field: it carries neither the password of the request nor
\* its hash.  (The caller is the client of the route: the value the service
\* hands to the handler still holds the hash, and the handler clears it.)
C13_RegisterReturnsNoPassword ==
    (resp.op = "Register" /\ resp.status = 201) =>
        /\ resp.body.Password = NoPassword
        /\ resp.body.Password # HashPassword(resp.req.password)
        /\ resp.body.Username = resp.req.username
        /\ resp.body.RoleID = resp.req.role_id

\* A registration succeeded; the row it stored holds the hash of the
\* password, the account it returned does not.
C13_Witness ==
    /\ resp.op = "Register"
    /\ resp.status = 201
    /\ resp.body.Password = NoPassword
    /\ \E a \in accounts :
          /\ a.ID = resp.body.ID
          /\ a.Password = HashPassword(resp.req.password)
          /\ a.Password # NoPassword

\* Details that carry the text of an error of the store: what Register
\* formats from the error of accountRepo.Create.
StoreDerivedDetails ==
    {"Failed to register account: failed to create account: store error"}

\* C14: an InternalError answered by Login, Register, RefreshToken or a
\* protected route carries no details derived from the error of the store,
\* in every reachable state, also after earlier failed requests.
C14_InternalErrorIsGeneric ==
    (resp.status = 500) =>
        /\ resp.body.code = 500
        /\ resp.body.message = "Internal server error"
        /\ resp.body.details \notin StoreDerivedDetails

\* A Login whose store lookup failed was answered with the details of the
\* store error of an earlier, failed Register.
C14_Witness ==
    /\ resp.op = "Login"
    /\ resp.req.dbErr = 1
    /\ resp.status = 500
    /\ resp.body.details \in StoreDerivedDetails

\* The first check of the refresh verification that the token fails at time
\* t: the token does not parse, its algorithm is not an HMAC, its MAC is not
\* the one of the secret, it is expired; "none" when it passes.
FailureKind(tok, t) ==
    IF ~({"alg", "payload", "mac"} \subseteq DOMAIN tok) THEN "malformed"
    ELSE IF ~IsSigningMethodHMAC(tok.alg) THEN "algorithm"
    ELSE IF tok.mac # JwtSecret THEN "signature"
    ELSE IF ~ClaimsValid(UnmarshalRefreshClaims(tok.payload), t) THEN "expired"
    ELSE "none"

FailureKinds == {"malformed", "algorithm", "signature", "expired"}

\* C15: VerifyRefreshToken returns one and the same Unauthorized outcome
\* (code, message, details, no claims) for every token it refuses, whichever
\* check the token fails, and so does RefreshToken on top of it.
C15_RefusalsAlike ==
    /\ \A tok \in Presentable :
          FailureKind(tok, now) # "none" =>
              /\ VerifyRefreshToken(errDetails, tok, JwtSecret, now) =
                    [err |-> TRUE, claims |-> NoClaims,
                     ed |-> SetDetails(errDetails, ErrUnauthorized, "Invalid refresh token")]
              /\ AuthRefreshToken(errDetails, tok, 0, now) =
                    [err |-> ErrUnauthorized, accessToken |-> EmptyToken,
                     ed |-> SetDetails(errDetails, ErrUnauthorized,
                                       "Invalid or expired refresh token")]
    /\ (resp.op = "RefreshToken" /\ FailureKind(ReqToken, now) # "none") =>
          /\ resp.status = 401
          /\ resp.body = [code |-> 401, message |-> "Unauthorized",
                          details |-> "Invalid or expired refresh token"]
    /\ (/\ resp.op = "VerifyToken"
        /\ resp.req.needsRefresh
        /\ FailureKind(ReqToken, now) # "none")
       => /\ resp.status = 401
          /\ resp.body = [code |-> 401, message |-> "Unauthorized",
                          details |-> "Invalid refresh token"]

\* RefreshToken refused an expired token with the right MAC, while tokens
\* failing each of the other checks were at hand.
C15_Witness ==
    /\ resp.op = "RefreshToken"
    /\ resp.status = 401
    /\ FailureKind(ReqToken, now) = "expired"
    /\ {FailureKind(tok, now) : tok \in Presentable} \ {"none"} = FailureKinds

\* C16: when the permission store fails while Authorize decides for a role
\* other than the administrator's (the role is not cached, so the store is
\* asked), the outcome is InternalError and the handler does not run: the
\* request is neither let through nor answered Forbidden.
C16_StoreFailureIsInternalError ==
    /\ \A r \in RoleIDs \ {AdminRoleID}, permission \in PermissionStrings :
          ~rolePermissionsCache[r].ok =>
              LET a == Authorize(errDetails, rolePermissionsCache, [RoleID |-> r], permission, 1)
              IN  /\ ~a.allow
                  /\ a.status = 500
                  /\ a.body.code = 500
                  /\ a.body.message = "Internal server error"
                  /\ a.cache = rolePermissionsCache
    /\ (/\ resp.op = "GetAccountById"
        /\ resp.req.permErr = 1
        /\ ~JwtAccessConfig(ReqToken, JwtSecret, now).err
        /\ JwtAccessConfig(ReqToken, JwtSecret, now).claims.RoleID # AdminRoleID
        /\ ~rolePermissionsCache[JwtAccessConfig(ReqToken, JwtSecret, now).claims.RoleID].ok)
       => /\ resp.status = 500
          /\ resp.body.code = 500
          /\ resp.body.message = "Internal server error"
          /\ resp.handler = "none"

\* The store failed on the first lookup of role 2, which holds the
\* permission of the route in the store: the request was answered 500 and
\* the handler did not run.
C16_Witness ==
    /\ resp.op = "GetAccountById"
    /\ resp.req.permErr = 1
    /\ IsAccessToken(ReqToken)
    /\ ReqToken.payload.role_id = 2
    /\ ~rolePermissionsCache[2].ok
    /\ "account:read" \in FindPermissionsByRoleID(2)
    /\ resp.status = 500
    /\ resp.handler = "none"

(***************************************************************************)
(* Token issue as a function of its inputs: GenerateAuthTokens called for  *)
(* every account and every pair of positive lifetimes, and the verifiers   *)
(* called on what it issued.  The code reads time.Now() four times (for    *)
(* exp and iat of the access token, then exp and iat of the refresh        *)
(* token); the clock may advance between the readings.  Time and the       *)
(* lifetimes are counted in one unit here.                                 *)
(***************************************************************************)
MaxTTL == 2

AccountInputs ==
    {[ID |-> 1, Username |-> "alice", RoleID |-> AdminRoleID],
     [ID |-> 2, Username |-> "bob", RoleID |-> 2]}

CallGenerateAuthTokens(account, accessExpiresHours, refreshExpiresHours, t2, t3, t4) ==
    LET req == [account |-> account, accessExpiresHours |-> accessExpiresHours,
                refreshExpiresHours |-> refreshExpiresHours]
        tokens == GenerateAuthTokens(account, JwtSecret, accessExpiresHours,
                                     refreshExpiresHours, now, t2, t3, t4)
    IN  /\ now <= t2 /\ t2 <= t3 /\ t3 <= t4 /\ t4 <= MaxTime
        /\ resp' = Response("GenerateAuthTokens", req, 200,
                            [access_token |-> tokens.accessToken,
                             refresh_token |-> tokens.refreshToken], "none")
        /\ issued' = Keep({tokens.accessToken, tokens.refreshToken})
        /\ now' = t4
        /\ UNCHANGED <<accounts, nextAccountID, roles, rolePermissions,
                       rolePermissionsCache, errDetails, nextRoleID, goroutineVars>>

NextIssue ==
    \/ Tick
    \/ \E account \in AccountInputs, a \in 1 .. MaxTTL, r \in 1 .. MaxTTL,
          t2 \in 0 .. MaxTime, t3 \in 0 .. MaxTime, t4 \in 0 .. MaxTime :
          CallGenerateAuthTokens(account, a, r, t2, t3, t4)
    \/ \E tok \in issued, needsRefresh \in BOOLEAN : CallVerifyToken(tok, needsRefresh)

SpecIssue == Init /\ [][NextIssue]_vars

\* C17: for every account and positive lifetime, verifying the access token
\* that GenerateAuthTokens issued for the account, with the same secret and
\* before the token expires, returns claims with the account's id, role id
\* and user name; verifying the refresh token returns the account's id.
C17_VerifyOfIssue ==
    /\ \A account \in AccountInputs, ttl \in 1 .. MaxTTL, t0 \in 0 .. now :
          now < t0 + ttl =>
              LET tokens == GenerateAuthTokens(account, JwtSecret, ttl, ttl, t0, t0, t0, t0)
                  a == VerifyToken(errDetails, tokens.accessToken, FALSE, JwtSecret, now)
                  j == JwtAccessConfig(tokens.accessToken, JwtSecret, now)
                  r == VerifyRefreshToken(errDetails, tokens.refreshToken, JwtSecret, now)
              IN  /\ ~a.err /\ ~j.err /\ ~r.err
                  /\ a.claims.AccountID = account.ID
                  /\ a.claims.RoleID = account.RoleID
                  /\ a.claims.Username = account.Username
                  /\ j.claims = a.claims
                  /\ r.claims.AccountID = account.ID
    /\ (resp.op = "GenerateAuthTokens") =>
          LET account == resp.req.account
              a == VerifyToken(errDetails, resp.body.access_token, FALSE, JwtSecret, now)
              r == VerifyRefreshToken(errDetails, resp.body.refresh_token, JwtSecret, now)
          IN  /\ now < resp.body.access_token.payload.exp =>
                    /\ ~a.err
                    /\ a.claims.AccountID = account.ID
                    /\ a.claims.RoleID = account.RoleID
                    /\ a.claims.Username = account.Username
              /\ now < resp.body.refresh_token.payload.exp =>
                    /\ ~r.err
                    /\ r.claims.AccountID = account.ID
    /\ (/\ resp.op = "VerifyToken"
        /\ ReqToken \in issued
        /\ resp.req.needsRefresh = IsRefreshToken(ReqToken)
        /\ now < ReqToken.payload.exp)
       => /\ resp.status = 200
          /\ resp.body.AccountID = ReqToken.payload.account_id
          /\ IsAccessToken(ReqToken) =>
                /\ resp.body.RoleID = ReqToken.payload.role_id
                /\ resp.body.Username = ReqToken.payload.username

\* VerifyToken returned the claims of bob, account 2 with role 2, from an
\* access token of lifetime 2 that had been issued one unit of time before.
C17_Witness ==
    /\ resp.op = "VerifyToken"
    /\ resp.status = 200
    /\ ~resp.req.needsRefresh
    /\ IsAccessToken(ReqToken)
    /\ ReqToken \in issued
    /\ now = ReqToken.payload.iat + 1
    /\ now < ReqToken.payload.exp
    /\ resp.body.AccountID = 2
    /\ resp.body.Username = "bob"
    /\ resp.body.RoleID = 2

\* C18: every token that GenerateAuthTokens issues, access and refresh, has
\* expiresAt = issuedAt + ttl exactly, also when the clock advances while
\* the tokens are issued.
C18_ExpiryIsIssuePlusTTL ==
    (resp.op = "GenerateAuthTokens") =>
        /\ resp.body.access_token.payload.exp =
              resp.body.access_token.payload.iat + resp.req.accessExpiresHours
        /\ resp.body.refresh_token.payload.exp =
              resp.body.refresh_token.payload.iat + resp.req.refreshExpiresHours

\* The clock advanced between the reading for exp and the reading for iat
\* of the access token: the token lives one unit less than ttl after iat.
C18_Witness ==
    /\ resp.op = "GenerateAuthTokens"
    /\ resp.body.access_token.payload.exp =
          resp.body.access_token.payload.iat + resp.req.accessExpiresHours - 1
    /\ resp.body.refresh_token.payload.exp =
          resp.body.refresh_token.payload.iat + resp.req.refreshExpiresHours

\* C19: a token whose MAC was made with another secret than the verifier's
\* is refused with Unauthorized by the access verification and by
\* VerifyRefreshToken, whatever its claims and its expiry; no handler runs
\* and RefreshToken mints nothing.
C19_OtherSecretRejected ==
    /\ \A tok \in Presentable :
          ("mac" \in DOMAIN tok /\ tok.mac # JwtSecret) =>
              /\ JwtAccessConfig(tok, JwtSecret, now).err
              /\ VerifyToken(errDetails, tok, FALSE, JwtSecret, now).err
              /\ VerifyToken(errDetails, tok, TRUE, JwtSecret, now).err
              /\ VerifyRefreshToken(errDetails, tok, JwtSecret, now).err
              /\ AuthRefreshToken(errDetails, tok, 0, now).err = ErrUnauthorized
              /\ AuthRefreshToken(errDetails, tok, 0, now).accessToken = EmptyToken
    /\ (/\ resp.op \in ProtectedOps \cup {"RefreshToken", "VerifyToken"}
        /\ "mac" \in DOMAIN ReqToken
        /\ ReqToken.mac # JwtSecret)
       => /\ resp.status = 401
          /\ IsUnauthorized(resp.body)
          /\ resp.op \in ProtectedOps => resp.handler = "none"

\* A protected route refused a token with administrator claims and no
\* expiry whose MAC was made with another secret, while account 1 existed.
C19_Witness ==
    /\ resp.op \in ProtectedOps
    /\ ReqToken \in Crafted
    /\ "exp" \notin DOMAIN ReqToken.payload
    /\ ReqToken.payload.role_id = AdminRoleID
    /\ \E a \in accounts : a.ID = ReqToken.payload.account_id
    /\ resp.status = 401
    /\ resp.handler = "none"

\* C20: of the HasPermission calls made one after another for a role r other
\* than the administrator's, with a store that answers, at most one goes to
\* the store: the first call fills the cache for r, the entry stays as it
\* is, and every call that finds it (for any permission string) is answered
\* from it without the store, so that even a failing store makes no
\* difference.
C20_StoreAskedAtMostOnce ==
    /\ [](\A r \in RoleIDs \ {AdminRoleID}, permission \in PermissionStrings :
            LET first == HasPermission(errDetails, rolePermissionsCache, r, permission, 0)
            IN  /\ first.cache[r].ok
                /\ first.queried <=> ~rolePermissionsCache[r].ok
                /\ \A later \in PermissionStrings, dbErr \in 0 .. 1 :
                      LET next == HasPermission(first.ed, first.cache, r, later, dbErr)
                      IN  /\ ~next.queried
                          /\ next.err = NilErr
                          /\ next.cache = first.cache
                          /\ next.has <=> later \in first.cache[r].perms)
    /\ [][\A r \in RoleIDs :
            rolePermissionsCache[r].ok => rolePermissionsCache'[r] = rolePermissionsCache[r]]_vars
    /\ [][(/\ resp'.op = "GetAccountById"
           /\ ~JwtAccessConfig(resp'.req.token, JwtSecret, now).err
           /\ rolePermissionsCache[JwtAccessConfig(resp'.req.token, JwtSecret, now).claims.RoleID].ok)
          => /\ rolePermissionsCache' = rolePermissionsCache
             /\ resp'.status # 500]_vars

\* A second request of role 2 was decided from the cached set while the
\* store was failing and held another set than the cached one.
C20_Witness ==
    /\ resp.op = "GetAccountById"
    /\ resp.req.permErr = 1
    /\ IsAccessToken(ReqToken)
    /\ ReqToken.payload.role_id = 2
    /\ rolePermissionsCache[2].ok
    /\ rolePermissionsCache[2].perms # FindPermissionsByRoleID(2)
    /\ resp.status \in {200, 403}

\* C23: when the query of the permission store fails during a fill for a
\* role r, HasPermission returns the internal error and the cache is as it
\* was before the call: no entry, empty or partial, stands for r, so that the
\* next HasPermission call for r goes to the store again.
C23_FailedFillLeavesNoEntry ==
    /\ [](\A r \in RoleIDs \ {AdminRoleID}, permission \in PermissionStrings :
            ~rolePermissionsCache[r].ok =>
                LET failed == HasPermission(errDetails, rolePermissionsCache, r, permission, 1)
                IN  /\ failed.queried
                    /\ failed.err = ErrInternalServer
                    /\ ~failed.has
                    /\ failed.cache = rolePermissionsCache
                    /\ ~failed.cache[r].ok
                    /\ \A next \in PermissionStrings, dbErr \in 0 .. 1 :
                          HasPermission(failed.ed, failed.cache, r, next, dbErr).queried)
    /\ [][(/\ resp'.op = "GetAccountById"
           /\ resp'.req.permErr = 1
           /\ resp'.status = 500)
          => rolePermissionsCache' = rolePermissionsCache]_vars

\* The fill for role 2 failed and left no entry, and the details of the
\* internal error name the failed retrieval.
C23_Witness ==
    /\ resp.op = "GetAccountById"
    /\ resp.req.permErr = 1
    /\ resp.status = 500
    /\ resp.body.details = "Failed to retrieve permissions"
    /\ IsAccessToken(ReqToken)
    /\ ReqToken.payload.role_id = 2
    /\ \A r \in RoleIDs : ~rolePermissionsCache[r].ok

\* The error objects as the package declares them: no Details.
FreshDetails == [e \in {o.name : o \in ErrorObjects} |-> NilDetails]

\* The body of the error response that the service call of the last request
\* gives when no earlier request has touched the error objects.
OwnErrorBody ==
    IF resp.op = "Login"
    THEN LET r == AuthLogin(FreshDetails, resp.req.username, resp.req.password,
                            resp.req.dbErr, now)
         IN  ErrorJSON(r.ed, r.err)
    ELSE LET r == AuthRegister(FreshDetails, resp.req.username, resp.req.password,
                               resp.req.role_id, resp.req.dbErr, nextAccountID)
         IN  ErrorJSON(r.ed, r.err)

\* C26: the details of an error response are the ones set while that
\* request was handled: the body of a failed Login or Register is the body
\* the same call gives with untouched error objects, whatever details
\* earlier requests attached to the shared objects.
C26_DetailsAreOwn ==
    (/\ resp.op \in {"Login", "Register"}
     /\ resp.handler = resp.op
     /\ resp.status >= 400)
    => resp.body = OwnErrorBody

\* A Register whose first store lookup failed, a path that sets no details,
\* was answered with details that an earlier request left in the object.
C26_Witness ==
    /\ resp.op = "Register"
    /\ resp.req.dbErr = 1
    /\ resp.status = 500
    /\ resp.body.details # NilDetails
    /\ OwnErrorBody.details = NilDetails

(***************************************************************************)
(* service/menu.go: accountServiceImpl.UpdatePassword, under the route     *)
(* POST /accounts/:id/password with AccountHandler.UpdateAccountPassword.  *)
(***************************************************************************)
\* roleRepositoryImpl.FindByName
RoleFindByName(name) == {r \in roles : r.Name = name}

\* accountRepositoryImpl.UpdatePassword: the password column of the row.
UpdatePassword(accountID, hashedPassword) ==
    {IF a.ID = accountID THEN [a EXCEPT !.Password = hashedPassword] ELSE a : a \in accounts}

\* The validator tags of models.UpdatePasswordRequest.
MinPasswordLen == 6

ValidateUpdatePasswordRequest(req) ==
    req.old_password # "" /\ req.new_password # "" /\ req.new_len >= MinPasswordLen

\* accountServiceImpl.UpdatePassword(accountID, oldPassword, newPassword,
\* requesterAccountID, requesterRoleID) under its handler.
AccountUpdatePassword(ed, accountID, oldPassword, newPassword, requesterAccountID, requesterRoleID, dbErr) ==
    IF dbErr = 1 THEN Failed(ErrInternalServer, ed)
    ELSE IF FindByID(accountID) = {} THEN Failed(ErrNotFound, ed)
    ELSE IF dbErr = 2 THEN Failed(ErrInternalServer, ed)
    ELSE IF RoleFindByName("admin") = {}
    THEN Failed(ErrInternalServer, SetDetails(ed, ErrInternalServer, "Admin role not configured."))
    ELSE IF requesterAccountID # accountID /\ requesterRoleID # Row(RoleFindByName("admin")).ID
    THEN Failed(ErrForbidden,
                SetDetails(ed, ErrForbidden,
                           "You do not have permission to change this account's password."))
    ELSE IF requesterAccountID = accountID /\ dbErr = 3 THEN Failed(ErrInternalServer, ed)
    ELSE IF /\ requesterAccountID = accountID
            /\ ~CheckPasswordHash(oldPassword, Row(FindByID(accountID)).Password)
    THEN Failed(ErrUnauthorized, SetDetails(ed, ErrUnauthorized, "Old password is incorrect"))
    ELSE IF requesterAccountID # accountID /\ newPassword = ""
    THEN Failed(ErrBadRequest,
                SetDetails(ed, ErrBadRequest,
                           "New password cannot be empty for admin password reset."))
    ELSE IF dbErr = 4
    THEN Failed(ErrInternalServer,
                SetDetails(ed, ErrInternalServer,
                           "Failed to update password: failed to update password: store error"))
    ELSE [status |-> 204, body |-> NoAccount, ed |-> ed,
          table |-> UpdatePassword(accountID, HashPassword(newPassword))]

\* POST /accounts/:id/password
UpdateAccountPassword(tokenString, id, oldPassword, newPassword, newLen, permErr, dbErr) ==
    LET j == JwtAccessConfig(tokenString, JwtSecret, now)
        body == [old_password |-> oldPassword, new_password |-> newPassword, new_len |-> newLen]
    IN  Protected("UpdateAccountPassword", tokenString,
                  [id |-> id, old_password |-> oldPassword, new_password |-> newPassword],
                  "account:update_password", permErr, dbErr,
                  IF j.err THEN Failed(ErrUnauthorized, errDetails)
                  ELSE IF ~ValidateUpdatePasswordRequest(body)
                  THEN [status |-> 400, body |-> NewValidationError("NewPassword:min"),
                        ed |-> errDetails, table |-> accounts]
                  ELSE AccountUpdatePassword(errDetails, id, oldPassword, newPassword,
                                             j.claims.AccountID, j.claims.RoleID, dbErr))

\* The passwords of the requests, with their lengths: two that the
\* validator accepts and one that is too short.
PasswordInputs == {<<"secret1", 7>>, <<"secret2", 7>>, <<"pw", 2>>}

\* Alice is registered as administrator and bob with the role finance; the
\* permission of the route is granted to finance in the store; both log in
\* and ask for password changes of either account.
NextPassword ==
    \/ Register("alice", "secret1", AdminRoleID, 0)
    \/ Register("bob", "secret1", 2, 0)
    \/ \E u \in Usernames, p \in {"secret1", "secret2"} : Login(u, p, 0)
    \/ AssignPermissionToRole(2, "account:update_password")
    \/ \E tok \in issued, id \in 1 .. MaxAccounts, old \in {"secret1", "wrong-1"},
          new \in PasswordInputs, dbErr \in {0, 4} :
          UpdateAccountPassword(tok, id, old, new[1], new[2], 0, dbErr)

SpecPassword == Init /\ [][NextPassword]_vars

\* The account that table accounts holds under the id.
Stored(id) == {a \in accounts : a.ID = id}

\* The last request reached accountServiceImpl.UpdatePassword with a target
\* that exists and with a store that answers.
PasswordRequest ==
    /\ resp.op = "UpdateAccountPassword"
    /\ resp.handler = "UpdateAccountPassword"
    /\ resp.req.dbErr = 0
    /\ resp.status # 400
    /\ Stored(resp.req.args.id) # {}

\* C29: UpdatePassword stores the new password when the requester is the
\* target account and supplies its current password, or when the requester
\* has the administrator role and the target is another account; in every
\* other case it answers with an error (Forbidden for another account's
\* password asked by a non-administrator, Unauthorized for a wrong old
\* password) and the stored password stays as it was.
C29_PasswordChangeRule ==
    [][(PasswordRequest')
       => LET req == resp'.req
              claims == JwtAccessConfig(req.token, JwtSecret, now).claims
              target == Row(Stored(req.args.id))
              self == claims.AccountID = target.ID
              admin == claims.RoleID = AdminRoleID
              allowed == \/ self /\ CheckPasswordHash(req.args.old_password, target.Password)
                         \/ admin /\ ~self
          IN  IF allowed
              THEN /\ resp'.status = 204
                   /\ accounts' = UpdatePassword(target.ID, HashPassword(req.args.new_password))
              ELSE /\ accounts' = accounts
                   /\ resp'.status = IF self THEN 401 ELSE 403]_vars

\* The half of the rule that forbids: the stored password of an account
\* changes in no step but an UpdatePassword that the rule allows.
C29_ChangeOnlyWhenAllowed ==
    [][\A a \in accounts :
          (\E b \in accounts' : b.ID = a.ID /\ b.Password # a.Password)
          => /\ PasswordRequest'
             /\ resp'.req.args.id = a.ID
             /\ LET claims == JwtAccessConfig(resp'.req.token, JwtSecret, now).claims
                IN  \/ /\ claims.AccountID = a.ID
                       /\ CheckPasswordHash(resp'.req.args.old_password, a.Password)
                    \/ claims.RoleID = AdminRoleID /\ claims.AccountID # a.ID]_vars

\* An account asked for a change of its own password and supplied the
\* password that the store holds for it; the request was answered
\* Unauthorized and the password is the old one.
C29_Witness ==
    /\ PasswordRequest
    /\ JwtAccessConfig(ReqToken, JwtSecret, now).claims.AccountID = resp.req.args.id
    /\ CheckPasswordHash(resp.req.args.old_password, Row(Stored(resp.req.args.id)).Password)
    /\ resp.status = 401
    /\ resp.body.details = "Old password is incorrect"

\* An administrator set the password of another account.
C29_AdminReset ==
    /\ PasswordRequest
    /\ JwtAccessConfig(ReqToken, JwtSecret, now).claims.RoleID = AdminRoleID
    /\ JwtAccessConfig(ReqToken, JwtSecret, now).claims.AccountID # resp.req.args.id
    /\ resp.status = 204
    /\ Row(Stored(resp.req.args.id)).Password = HashPassword(resp.req.args.new_password)

(***************************************************************************)
(* The role service (roleServiceImpl): the operations of the program that  *)
(* change table roles.  main.go constructs the service; the route table    *)
(* mounts no handler over it.                                              *)
(***************************************************************************)
MaxRoleID == 4

RoleNames == {"admin", "finance", "ops"}

\* The answer of a service call that is not a route: an error object with
\* its status, or 200.
ServiceResponse(op, req, e, ed) ==
    IF e = NilErr
    THEN Response(op, req, 200, NoAccount, "none")
    ELSE Response(op, req, e.Code, ErrorJSON(ed, e), "none")

\* roleServiceImpl.CreateRole over roleRepositoryImpl.Create
CreateRole(name) ==
    LET req == [name |-> name]
        ed1 == SetDetails(errDetails, ErrBadRequest, "Role with this name already exists.")
    IN  /\ nextRoleID <= MaxRoleID
        /\ IF RoleFindByName(name) # {}
           THEN /\ resp' = ServiceResponse("CreateRole", req, ErrBadRequest, ed1)
                /\ errDetails' = ed1
                /\ UNCHANGED <<roles, nextRoleID>>
           ELSE /\ resp' = ServiceResponse("CreateRole", req, NilErr, errDetails)
                /\ roles' = roles \cup {[ID |-> nextRoleID, Name |-> name]}
                /\ nextRoleID' = nextRoleID + 1
                /\ UNCHANGED errDetails
        /\ UNCHANGED <<now, accounts, nextAccountID, rolePermissions, rolePermissionsCache,
                       issued, goroutineVars>>

\* roleServiceImpl.UpdateRole over roleRepositoryImpl.Update
UpdateRole(id, name) ==
    LET req == [id |-> id, name |-> name]
        ed1 == SetDetails(errDetails, ErrBadRequest, "Role name already exists for another role")
    IN  /\ IF RoleFindByID(id) = {}
           THEN /\ resp' = ServiceResponse("UpdateRole", req, ErrNotFound, errDetails)
                /\ UNCHANGED <<roles, errDetails>>
           ELSE IF /\ Row(RoleFindByID(id)).Name # name
                   /\ \E o \in RoleFindByName(name) : o.ID # id
           THEN /\ resp' = ServiceResponse("UpdateRole", req, ErrBadRequest, ed1)
                /\ errDetails' = ed1
                /\ UNCHANGED roles
           ELSE /\ resp' = ServiceResponse("UpdateRole", req, NilErr, errDetails)
                /\ roles' = {IF r.ID = id THEN [r EXCEPT !.Name = name] ELSE r : r \in roles}
                /\ UNCHANGED errDetails
        /\ UNCHANGED <<now, accounts, nextAccountID, rolePermissions, rolePermissionsCache,
                       issued, nextRoleID, goroutineVars>>

\* roleServiceImpl.DeleteRole over roleRepositoryImpl.Delete.  The store
\* refuses while an account refers to the role (ON DELETE RESTRICT) and
\* deletes the grants of the role with it (ON DELETE CASCADE).
DeleteRole(id) ==
    LET req == [id |-> id]
        ed1 == SetDetails(errDetails, ErrInternalServer,
                          "Failed to delete role: failed to delete role: store error")
    IN  /\ IF RoleFindByID(id) = {}
           THEN /\ resp' = ServiceResponse("DeleteRole", req, ErrNotFound, errDetails)
                /\ UNCHANGED <<roles, rolePermissions, errDetails>>
           ELSE IF \E a \in accounts : a.RoleID = id
           THEN /\ resp' = ServiceResponse("DeleteRole", req, ErrInternalServer, ed1)
                /\ errDetails' = ed1
                /\ UNCHANGED <<roles, rolePermissions>>
           ELSE /\ resp' = ServiceResponse("DeleteRole", req, NilErr, errDetails)
                /\ roles' = {r \in roles : r.ID # id}
                /\ rolePermissions' = {rp \in rolePermissions : rp[1] # id}
                /\ UNCHANGED errDetails
        /\ UNCHANGED <<now, accounts, nextAccountID, rolePermissionsCache, issued,
                       nextRoleID, goroutineVars>>

\* Roles are created, renamed and deleted while accounts are registered.
NextRoles ==
    \/ \E r \in {AdminRoleID, 2} : Register("alice", "secret1", r, 0)
    \/ \E name \in RoleNames : CreateRole(name)
    \/ \E id \in 1 .. MaxRoleID, name \in RoleNames : UpdateRole(id, name)
    \/ \E id \in 1 .. MaxRoleID : DeleteRole(id)

SpecRoles == Init /\ [][NextRoles]_vars

\* Authorize lets the role through without asking the permission service:
\* the decision for claims of the role when nothing is cached and the
\* permission store fails.
Exempt(roleID) ==
    Authorize(FreshDetails, [r \in 0 .. MaxRoleID |-> [ok |-> FALSE, perms |-> {}]],
              [RoleID |-> roleID], "account:update_password", 1).allow

\* UpdatePassword lets a requester of the role set the password of some
\* account other than the requester's.
ResetsOthers(roleID) ==
    \E a \in accounts :
        AccountUpdatePassword(FreshDetails, a.ID, "secret1", "secret2", 0, roleID, 0).status = 204

\* C27: in every state of table roles, the role that Authorize exempts from
\* the permission check (id 1) is the role that UpdatePassword takes for the
\* administrator (the one named "admin"), and no other role is exempted or
\* may set the password of another account.
C27_OneAdministratorRole ==
    /\ RoleFindByName("admin") = RoleFindByID(AdminRoleID)
    /\ RoleFindByID(AdminRoleID) # {}
    /\ \A r \in 0 .. MaxRoleID :
          r # AdminRoleID => ~Exempt(r) /\ ~ResetsOthers(r)

\* Role 1 was renamed and role 2 now has the name "admin": role 1 is still
\* exempted by Authorize but may not reset passwords, and role 2 resets
\* passwords without being exempted.
C27_Witness ==
    /\ [ID |-> 2, Name |-> "admin"] \in roles
    /\ RoleFindByID(AdminRoleID) # {}
    /\ Exempt(AdminRoleID) /\ ~ResetsOthers(AdminRoleID)
    /\ ResetsOthers(2) /\ ~Exempt(2)

(***************************************************************************)
(* service/permission.go, statement by statement, for goroutines that run  *)
(* HasPermission at once.  cacheMutex is the sync.RWMutex: w is the        *)
(* goroutine that has called Lock and not yet Unlock (from that call on    *)
(* RLock blocks; the Lock returns when the readers have left), readers the *)
(* goroutines between RLock and RUnlock.  A map object is a record of      *)
(* permissionMaps and is referred to by its index.                         *)
(***************************************************************************)
MaxCalls == 2

\* What HasPermission and loadPermissionsForRole leave alone.
outside == <<now, accounts, nextAccountID, roles, rolePermissions, issued, resp,
             nextRoleID, registering>>

\* The frame of g with the fields of the record upd replaced.
Frame(g, upd) ==
    [calls EXCEPT ![g] = [f \in DOMAIN calls[g] |->
                             IF f \in DOMAIN upd THEN upd[f] ELSE calls[g][f]]]

\* The frame of g after a return.
Returned(g, ret, has) ==
    [calls EXCEPT ![g] = [NoCall EXCEPT !.ret = ret, !.has = has, !.n = calls[g].n + 1]]

\* A request goroutine enters HasPermission(roleID, permission).
CallHasPermission(g, roleID, permission) ==
    /\ calls[g].pc = "idle"
    /\ calls[g].n < MaxCalls
    /\ calls' = [calls EXCEPT ![g] = [NoCall EXCEPT !.pc = "RLock68", !.roleID = roleID,
                                                    !.permission = permission,
                                                    !.n = calls[g].n]]
    /\ UNCHANGED <<outside, rolePermissionsCache, errDetails, cacheMutex, permissionMaps,
                   cacheRef, storeQueries>>

\* s.cacheMutex.RLock(), lines 68 and 86
RLock(g) ==
    /\ calls[g].pc \in {"RLock68", "RLock86"}
    /\ cacheMutex.w = 0
    /\ cacheMutex' = [cacheMutex EXCEPT !.readers = @ \cup {g}]
    /\ calls' = Frame(g, [pc |-> IF calls[g].pc = "RLock68" THEN "read69" ELSE "read87"])
    /\ UNCHANGED <<outside, rolePermissionsCache, errDetails, permissionMaps, cacheRef,
                   storeQueries>>

\* rolePerms, ok := s.rolePermissionsCache[roleID], lines 69 and 87
ReadCache(g) ==
    /\ calls[g].pc \in {"read69", "read87"}
    /\ calls' = Frame(g, [pc |-> IF calls[g].pc = "read69" THEN "RUnlock70" ELSE "RUnlock88",
                          rolePerms |-> cacheRef[calls[g].roleID],
                          ok |-> cacheRef[calls[g].roleID] # 0])
    /\ UNCHANGED <<outside, rolePermissionsCache, errDetails, cacheMutex, permissionMaps,
                   cacheRef, storeQueries>>

\* s.cacheMutex.RUnlock(), lines 70 and 88, and the branch on ok after it
RUnlock(g) ==
    /\ calls[g].pc \in {"RUnlock70", "RUnlock88"}
    /\ cacheMutex' = [cacheMutex EXCEPT !.readers = @ \ {g}]
    /\ calls' = Frame(g, [pc |-> IF calls[g].pc = "RUnlock70"
                                 THEN IF calls[g].ok THEN "has74" ELSE "Lock47"
                                 ELSE IF calls[g].ok THEN "has91" ELSE "return97"])
    /\ UNCHANGED <<outside, rolePermissionsCache, errDetails, permissionMaps, cacheRef,
                   storeQueries>>

\* _, has := rolePerms[permission]; return has, nil: lines 74-75 and 91-92
TestAndReturn(g) ==
    /\ calls[g].pc \in {"has74", "has91"}
    /\ calls' = Returned(g, "nil", Has(permissionMaps[calls[g].rolePerms].names,
                                       calls[g].permission))
    /\ UNCHANGED <<outside, rolePermissionsCache, errDetails, cacheMutex, permissionMaps,
                   cacheRef, storeQueries>>

\* s.cacheMutex.Lock(), line 47: the call is made and readers are shut out
Lock(g) ==
    /\ calls[g].pc = "Lock47"
    /\ cacheMutex.w = 0
    /\ cacheMutex' = [cacheMutex EXCEPT !.w = g]
    /\ calls' = Frame(g, [pc |-> "Locked47"])
    /\ UNCHANGED <<outside, rolePermissionsCache, errDetails, permissionMaps, cacheRef,
                   storeQueries>>

\* s.cacheMutex.Lock() returns when the readers have left
Locked(g) ==
    /\ calls[g].pc = "Locked47"
    /\ cacheMutex.readers = {}
    /\ calls' = Frame(g, [pc |-> "query50"])
    /\ UNCHANGED <<outside, rolePermissionsCache, errDetails, cacheMutex, permissionMaps,
                   cacheRef, storeQueries>>

\* s.permissionRepo.FindPermissionsByRoleID(roleID), line 50: the query is sent
Query(g) ==
    /\ calls[g].pc = "query50"
    /\ storeQueries' = [storeQueries EXCEPT ![calls[g].roleID] = @ + 1]
    /\ calls' = Frame(g, [pc |-> "wait50"])
    /\ UNCHANGED <<outside, rolePermissionsCache, errDetails, cacheMutex, permissionMaps,
                   cacheRef>>

\* The store answers the query: the rows of the role, or an error
\* (lines 50-54).
Reply(g, dbErr) ==
    /\ calls[g].pc = "wait50"
    /\ calls' = IF dbErr = 1
                THEN Frame(g, [pc |-> "Unlock48", err |-> TRUE])
                ELSE Frame(g, [pc |-> "make56",
                               permissions |-> FindPermissionsByRoleID(calls[g].roleID),
                               rest |-> FindPermissionsByRoleID(calls[g].roleID)])
    /\ UNCHANGED <<outside, rolePermissionsCache, errDetails, cacheMutex, permissionMaps,
                   cacheRef, storeQueries>>

\* Variant: the new map is put into the cache when it is made, before the
\* loop fills it.
MakePublished(g) ==
    /\ calls[g].pc = "make56"
    /\ permissionMaps' = Append(permissionMaps, [roleID |-> calls[g].roleID, names |-> {}])
    /\ cacheRef' = [cacheRef EXCEPT ![calls[g].roleID] = Len(permissionMaps) + 1]
    /\ calls' = Frame(g, [pc |-> "range57", permissionMap |-> Len(permissionMaps) + 1])
    /\ UNCHANGED <<outside, rolePermissionsCache, errDetails, cacheMutex, storeQueries>>

\* permissionMap := make(map[string]bool), line 56
Make(g) ==
    /\ calls[g].pc = "make56"
    /\ permissionMaps' = Append(permissionMaps, [roleID |-> calls[g].roleID, names |-> {}])
    /\ calls' = Frame(g, [pc |-> "range57", permissionMap |-> Len(permissionMaps) + 1])
    /\ UNCHANGED <<outside, rolePermissionsCache, errDetails, cacheMutex, cacheRef,
                   storeQueries>>

\* for _, p := range permissions { permissionMap[p.Name] = true }, lines
\* 57-59: one row per step, in whatever order the rows came (rest: the rows
\* still to come); then the loop ends.
Range(g) ==
    /\ calls[g].pc = "range57"
    /\ IF calls[g].rest = {}
       THEN /\ calls' = Frame(g, [pc |-> "store60"])
            /\ UNCHANGED permissionMaps
       ELSE \E p \in calls[g].rest :
               /\ permissionMaps' = [permissionMaps EXCEPT ![calls[g].permissionMap].names =
                                                               @ \cup {p}]
               /\ calls' = Frame(g, [rest |-> calls[g].rest \ {p}])
    /\ UNCHANGED <<outside, rolePermissionsCache, errDetails, cacheMutex, cacheRef,
                   storeQueries>>

\* s.rolePermissionsCache[roleID] = permissionMap, line 60
Store(g) ==
    /\ calls[g].pc = "store60"
    /\ cacheRef' = [cacheRef EXCEPT ![calls[g].roleID] = calls[g].permissionMap]
    /\ rolePermissionsCache' =
          [rolePermissionsCache EXCEPT ![calls[g].roleID] =
              [ok |-> TRUE, perms |-> permissionMaps[calls[g].permissionMap].names]]
    /\ calls' = Frame(g, [pc |-> "Unlock48"])
    /\ UNCHANGED <<outside, errDetails, cacheMutex, permissionMaps, storeQueries>>

\* Variant: the deferred Unlock runs on the path without error only.
UnlockOnSuccess(g) ==
    /\ calls[g].pc = "Unlock48"
    /\ cacheMutex' = IF calls[g].err THEN cacheMutex ELSE [cacheMutex EXCEPT !.w = 0]
    /\ calls' = Frame(g, [pc |-> IF calls[g].err THEN "return82" ELSE "RLock86"])
    /\ UNCHANGED <<outside, rolePermissionsCache, errDetails, permissionMaps, cacheRef,
                   storeQueries>>

\* defer s.cacheMutex.Unlock(), line 48, as loadPermissionsForRole returns
Unlock(g) ==
    /\ calls[g].pc = "Unlock48"
    /\ cacheMutex' = [cacheMutex EXCEPT !.w = 0]
    /\ calls' = Frame(g, [pc |-> IF calls[g].err THEN "return82" ELSE "RLock86"])
    /\ UNCHANGED <<outside, rolePermissionsCache, errDetails, permissionMaps, cacheRef,
                   storeQueries>>

\* return false, utils.ErrInternalServer.SetDetails(...), lines 82 and 97
ReturnError(g) ==
    /\ calls[g].pc \in {"return82", "return97"}
    /\ errDetails' = SetDetails(errDetails, ErrInternalServer,
                                IF calls[g].pc = "return82"
                                THEN "Failed to retrieve permissions"
                                ELSE "Could not verify permission")
    /\ calls' = Returned(g, "ErrInternalServer", FALSE)
    /\ UNCHANGED <<outside, rolePermissionsCache, cacheMutex, permissionMaps, cacheRef,
                   storeQueries>>

\* The roles and the permission strings of the concurrent calls.
CallRoles == {2, 3}

CallPermissions == {"account:read", "account:update"}

\* One step of goroutine g inside HasPermission.
Step(g) ==
    \/ RLock(g)
    \/ ReadCache(g)
    \/ RUnlock(g)
    \/ TestAndReturn(g)
    \/ Lock(g)
    \/ Locked(g)
    \/ Query(g)
    \/ \E dbErr \in 0 .. 1 : Reply(g, dbErr)
    \/ Make(g)
    \/ Range(g)
    \/ Store(g)
    \/ Unlock(g)
    \/ ReturnError(g)

\* Goroutines call HasPermission at once while permissions are granted and
\* revoked in the store.
NextCache ==
    \/ \E g \in Goroutines, r \in CallRoles : CallHasPermission(g, r, "account:read")
    \/ \E g \in Goroutines : Step(g)
    \/ \E p \in CallPermissions : AssignPermissionToRole(2, p)

SpecCache == Init /\ [][NextCache]_vars

\* The calls alone, with a scheduler that lets every goroutine run that can
\* take a step, and a store that answers every query.
NextCalls ==
    \/ \E g \in Goroutines, r \in CallRoles : CallHasPermission(g, r, "account:read")
    \/ \E g \in Goroutines : Step(g)

SpecCalls == Init /\ [][NextCalls]_vars /\ \A g \in Goroutines : WF_vars(Step(g))

\* The goroutines between Lock and Unlock of loadPermissionsForRole.
Filling == {g \in Goroutines : calls[g].pc \in {"query50", "wait50", "make56", "range57",
                                                 "store60", "Unlock48"}}

\* The map objects made for the role, in the order of their making.
MapsOf(roleID) == {i \in 1 .. Len(permissionMaps) : permissionMaps[i].roleID = roleID}

\* C21: concurrent misses for one role fill one after the other, never two
\* at once, and the later fill finds the entry of the earlier one and does
\* not ask the store: no query is sent for a role that has an entry, and
\* at most one set is ever built for a role.
C21_SecondFillShortCircuits ==
    /\ [](Cardinality(Filling) <= 1)
    /\ [](\A r \in RoleIDs : Cardinality(MapsOf(r)) <= 1)
    /\ [][\A g \in Goroutines :
            (calls[g].pc = "query50" /\ calls'[g].pc = "wait50")
            => cacheRef[calls[g].roleID] = 0]_vars

\* Two goroutines missed role 2 one beside the other; each queried the
\* store and built a set, and no query failed.
C21_Witness ==
    /\ storeQueries[2] = 2
    /\ Cardinality(MapsOf(2)) = 2
    /\ cacheRef[2] = 2
    /\ \A g \in Goroutines : calls[g].pc = "idle" /\ calls[g].n = 1 /\ calls[g].ret = "nil"

\* C22: while a fill for a role waits for the answer of the permission
\* store, a HasPermission call for another role, which the cache holds,
\* takes the read lock without waiting.
C22_OtherRolesNotBlocked ==
    \A g \in Goroutines, h \in Goroutines :
        (/\ calls[g].pc = "wait50"
         /\ calls[h].pc = "RLock68"
         /\ calls[h].roleID # calls[g].roleID
         /\ cacheRef[calls[h].roleID] # 0)
        => ENABLED RLock(h)

\* Goroutine 1 holds the write lock and waits for the store's answer about
\* role 2; goroutine 2 asks about role 3, which is cached, and stands
\* before RLock.
C22_Witness ==
    /\ calls[1].pc = "wait50" /\ calls[1].roleID = 2
    /\ cacheMutex.w = 1
    /\ calls[2].pc = "RLock68" /\ calls[2].roleID = 3
    /\ cacheRef[3] # 0 /\ rolePermissionsCache[3].ok

\* The set that the first fill for the role loaded.
FirstSet(roleID) ==
    permissionMaps[CHOOSE i \in MapsOf(roleID) : \A j \in MapsOf(roleID) : i <= j].names

\* C24: once the cache holds an entry for a role, the entry is neither
\* removed nor replaced, and every HasPermission call for the role that
\* returns without error returns membership in the set loaded on the first
\* miss, whatever is granted in the store meanwhile and however the calls
\* interleave.
C24_EntryNeverReplaced ==
    /\ [][\A r \in RoleIDs : cacheRef[r] # 0 => cacheRef'[r] = cacheRef[r]]_vars
    /\ [][\A g \in Goroutines :
            (calls[g].pc \in {"has74", "has91"} /\ calls'[g].pc = "idle")
            => (calls'[g].has <=> calls[g].permission \in FirstSet(calls[g].roleID))]_vars

\* The entry of role 2 is the set of a second fill, which holds a
\* permission granted after the first fill; a goroutine is about to answer
\* from it.
C24_Witness ==
    /\ Cardinality(MapsOf(2)) = 2
    /\ cacheRef[2] = 2
    /\ \E g \in Goroutines :
          /\ calls[g].pc \in {"has74", "has91"}
          /\ calls[g].rolePerms = 2
          /\ calls[g].permission \in permissionMaps[2].names \ FirstSet(2)

\* C28: concurrent HasPermission calls never deadlock.  No goroutine asks
\* for the write lock while it holds the read lock; a goroutine that has
\* returned, with or without error, holds neither lock; while a call is
\* under way some goroutine can take a step; and every call returns, given
\* that the store answers its query.
C28_NoDeadlock ==
    /\ [](\A g \in Goroutines :
            /\ calls[g].pc \in {"Lock47", "Locked47"} => g \notin cacheMutex.readers
            /\ calls[g].pc = "idle" => g \notin cacheMutex.readers /\ cacheMutex.w # g)
    /\ []((\E g \in Goroutines : calls[g].pc # "idle")
          => \E g \in Goroutines : ENABLED Step(g))
    /\ \A g \in Goroutines : (calls[g].pc # "idle") ~> (calls[g].pc = "idle")

\* Goroutine 1 has returned the internal error of a failed fill, and
\* goroutine 2, which waited for the lock meanwhile, now holds it and waits
\* for the store.
C28_Witness ==
    /\ calls[1].pc = "idle" /\ calls[1].ret = "ErrInternalServer" /\ calls[1].n = 1
    /\ calls[2].pc = "wait50" /\ calls[2].n = 0
    /\ cacheMutex = [w |-> 2, readers |-> {}]
    /\ storeQueries[calls[2].roleID] = 2

\* The map objects that a goroutine can read: the ones the cache refers to
\* and the ones a goroutine took from the cache.
Readable ==
    ({cacheRef[r] : r \in RoleIDs} \cup {calls[g].rolePerms : g \in Goroutines}) \ {0}

\* C30: a permission set is complete when it is put into the cache and is
\* not written afterwards: the loop writes only to a set that no reader can
\* reach, the set that is stored holds every row of the answer, a fill
\* stores a set that was never in the cache, and no set that a reader can
\* reach changes.  So the membership test after RUnlock never runs beside a
\* write to the set it reads.
C30_SetsImmutableOnceStored ==
    /\ [](\A g \in Goroutines :
            /\ calls[g].pc \in {"range57", "store60"}
               => calls[g].permissionMap \notin Readable
            /\ calls[g].pc = "store60"
               => permissionMaps[calls[g].permissionMap].names = calls[g].permissions)
    /\ [][\A i \in 1 .. Len(permissionMaps) :
            i \in Readable => permissionMaps'[i] = permissionMaps[i]]_vars

\* Goroutine 1 is about to test membership in the set it took from the
\* cache while goroutine 2 is in the loop of a second fill for the same
\* role, with one row written and one to come.
C30_Witness ==
    /\ calls[1].pc \in {"has74", "has91"} /\ calls[1].rolePerms = 1
    /\ calls[2].pc = "range57" /\ calls[2].permissionMap = 2
    /\ calls[2].roleID = calls[1].roleID
    /\ permissionMaps[2].names # {} /\ calls[2].rest # {}

(***************************************************************************)
(* Registration by goroutines that run at once: authServiceImpl.Register   *)
(* (service/company.go) and accountServiceImpl.CreateAccount               *)
(* (service/menu.go), which make the same store calls in the same order.   *)
(* Each store call is one step.  Table accounts declares username UNIQUE:  *)
(* the INSERT of a user name that the table holds fails.                   *)
(***************************************************************************)
\* What the registrations leave alone.
unregistered == <<now, roles, rolePermissions, rolePermissionsCache, issued, resp, nextRoleID,
                  cacheMutex, calls, permissionMaps, cacheRef, storeQueries>>

\* The frame of g as the call returns the error e with the details.
RegisterReturns(g, e, details) ==
    /\ registering' = [registering EXCEPT ![g].pc = "done", ![g].status = e.Code,
                                          ![g].details = details]
    /\ errDetails' = SetDetails(errDetails, e, details)

\* A request goroutine enters Register or CreateAccount.
RegisterCall(g, via, username, password, roleID) ==
    /\ registering[g].pc = "idle"
    /\ registering' = [registering EXCEPT ![g] =
                          [NoRegister EXCEPT !.pc = "FindByUsername", !.via = via,
                                             !.username = username, !.password = password,
                                             !.roleID = roleID]]
    /\ UNCHANGED <<unregistered, accounts, nextAccountID, errDetails>>

\* existingAccount, err := s.accountRepo.FindByUsername(username)
RegisterFindByUsername(g) ==
    /\ registering[g].pc = "FindByUsername"
    /\ IF FindByUsername(registering[g].username) # {}
       THEN RegisterReturns(g, ErrBadRequest, "Username already exists")
       ELSE /\ registering' = [registering EXCEPT ![g].pc = "FindByID"]
            /\ UNCHANGED errDetails
    /\ UNCHANGED <<unregistered, accounts, nextAccountID>>

\* role, err := s.roleRepo.FindByID(roleID)
RegisterFindRole(g) ==
    /\ registering[g].pc = "FindByID"
    /\ IF RoleFindByID(registering[g].roleID) = {}
       THEN RegisterReturns(g, ErrBadRequest, "Invalid Role ID")
       ELSE /\ registering' = [registering EXCEPT ![g].pc = "Create"]
            /\ UNCHANGED errDetails
    /\ UNCHANGED <<unregistered, accounts, nextAccountID>>

\* The text that the service makes of the store's refusal of the INSERT.
DuplicateKeyDetails(via) ==
    IF via = "Register"
    THEN "Failed to register account: failed to create account: duplicate key accounts_username_key"
    ELSE "Failed to create account: failed to create account: duplicate key accounts_username_key"

\* s.accountRepo.Create(newAccount): the INSERT takes the next id of the
\* sequence and is refused when the table holds the user name.
RegisterCreate(g) ==
    /\ registering[g].pc = "Create"
    /\ nextAccountID' = nextAccountID + 1
    /\ IF \E a \in accounts : a.Username = registering[g].username
       THEN /\ RegisterReturns(g, ErrInternalServer, DuplicateKeyDetails(registering[g].via))
            /\ UNCHANGED accounts
       ELSE /\ accounts' = Create([Username |-> registering[g].username,
                                   Password |-> HashPassword(registering[g].password),
                                   RoleID |-> registering[g].roleID], nextAccountID)
            /\ registering' = [registering EXCEPT ![g].pc = "done", ![g].status = 201]
            /\ UNCHANGED errDetails
    /\ UNCHANGED unregistered

\* Goroutines register user names, with a role that exists or not, at once.
NextRegister ==
    \/ \E g \in Goroutines, via \in {"Register", "CreateAccount"}, u \in Usernames,
          r \in {2, OrphanRoleID} : RegisterCall(g, via, u, "secret1", r)
    \/ \E g \in Goroutines : RegisterFindByUsername(g)
    \/ \E g \in Goroutines : RegisterFindRole(g)
    \/ \E g \in Goroutines : RegisterCreate(g)

SpecRegister == Init /\ [][NextRegister]_vars

\* The goroutines that registered the user name with a role that exists.
Registering(username) ==
    {g \in Goroutines : /\ registering[g].username = username
                        /\ RoleFindByID(registering[g].roleID) # {}}

\* C25: when two or more Register or CreateAccount calls for one new user
\* name and a valid role have run at once, in whatever interleaving, one
\* account has the name, one call has succeeded, and every other call was
\* refused with BadRequest as a duplicate user name.
C25_OneSucceedsOthersBadRequest ==
    \A u \in Usernames :
        (/\ Cardinality(Registering(u)) >= 2
         /\ \A g \in Registering(u) : registering[g].pc = "done")
        => /\ Cardinality({a \in accounts : a.Username = u}) = 1
           /\ Cardinality({g \in Registering(u) : registering[g].status = 201}) = 1
           /\ \A g \in Registering(u) :
                 registering[g].status # 201
                 => /\ registering[g].status = 400
                    /\ registering[g].details = "Username already exists"

\* What the UNIQUE constraint keeps of it: one account has the name and one
\* call has succeeded.
C25_OneAccountPerName ==
    \A u \in Usernames :
        (/\ Cardinality(Registering(u)) >= 2
         /\ \A g \in Registering(u) : registering[g].pc = "done")
        => /\ Cardinality({a \in accounts : a.Username = u}) = 1
           /\ Cardinality({g \in Registering(u) : registering[g].status = 201}) = 1

\* Both goroutines registered alice and found no such account; one INSERT
\* succeeded and the other was refused by the store and answered 500.
C25_Witness ==
    /\ \A g \in Goroutines : registering[g].pc = "done" /\ registering[g].username = "alice"
    /\ {registering[g].status : g \in Goroutines} = {201, 500}
    /\ Cardinality({a \in accounts : a.Username = "alice"}) = 1

=============================================================================
